---------------------------- MODULE Spec2Model ----------------------------
(***************************************************************************)
(* Keyword-occurrence index of HashAndTrie (src/ED2): the open-addressing  *)
(* hash table (hash.c), the 27-way trie (trie.c), the two index builders   *)
(* and the two tokenizers (util.c, trie.c).                                *)
(*                                                                         *)
(* C strings are sequences of byte values (the terminating NUL is left     *)
(* implicit).  A HashTable is a record [size, entries, table] whose table  *)
(* is a function from the OCCUPIED slot indices to entries: slot i has     *)
(* word == NULL exactly when i is not in DOMAIN table.                     *)
(***************************************************************************)
EXTENDS Integers, Sequences, FiniteSets, TLC

VARIABLES
    ht,         \* the HashTable under test / the global hash_table
    inserted,   \* history: the (word, position) pairs handed to an insert
    resizes,    \* history: how many hash_resize calls succeeded
    ret,        \* outcome of the last call
    root,       \* the trie (NULL before the first build)
    palavras,   \* corpus array: the words
    posicoes,   \* corpus array: posicoes[i] is the position list of palavras[i]
    keywords,   \* the keyword list
    texto,      \* the raw text handed to criar_indice_trie_texto
    saida,      \* what the last reporter call printed
    calls,      \* history: the trie_insert calls made, in order
    destroyed,  \* history: how many index objects were destroyed
    value,      \* the integer returned by the last call of a function that returns one
    copias      \* util.c: the copies of the inputs each index was built from

vars == <<ht, inserted, resizes, ret, root, palavras, posicoes, keywords, texto,
          saida, calls, destroyed, value, copias>>

---------------------------------------------------------------------------
(* Bounds of the model *)

MaxWords == 6       \* words of GrowPool inserted by the growth machine
MaxInitSize == 3    \* initial capacities are 1..MaxInitSize
MaxOccWords == 2    \* words of OccPool inserted by the occurrence machine
MaxPos == 3         \* positions inserted by the occurrence machine: 1..MaxPos
MaxCorpus == 2      \* entries of the corpus arrays handed to the builders
MaxKeywords == 2    \* length of the keyword list
MaxTextLen == 4     \* bytes of raw text handed to criar_indice_trie_texto
MaxTrieInserts == 1 \* trie_insert calls of the normalization machine
MaxTrieCalls == 3   \* trie_insert calls of the trie machine
MaxRebuilds == 3    \* indexes destroyed by rebuilding
MaxLookups == 3     \* words inserted by the lookup machine
MaxHashLen == 2     \* bytes of the word handed to hash_function
MaxSort == 3        \* entries of the arrays handed to the sort and the binary search
MaxCursorCalls == 2 \* trie_insert calls of the cursor machine

(* Program constants *)

INITIAL_HASH_SIZE == 1023
DEFAULT_OCCURRENCES == 10

---------------------------------------------------------------------------
(* Helpers on sequences *)

Range(s) == {s[i] : i \in DOMAIN s}

StrictlyAscending(s) == \A i \in 1..(Len(s) - 1) : s[i] < s[i + 1]

CountOf(s, x) == Cardinality({i \in DOMAIN s : s[i] = x})

SeqsUpTo(S, n) == UNION {[1..k -> S] : k \in 0..n}

\* the ascending sequence of the elements of a finite set of integers
RECURSIVE SortedSeq(_)
SortedSeq(S) ==
    IF S = {} THEN <<>>
    ELSE LET m == CHOOSE x \in S : \A y \in S : x <= y
         IN  <<m>> \o SortedSeq(S \ {m})

---------------------------------------------------------------------------
(* <ctype.h>/<strings.h> in the "C" locale (the program never calls         *)
(* setlocale)                                                               *)

tolower(b) == IF b >= 65 /\ b <= 90 THEN b + 32 ELSE b

LowerStr(w) == [i \in DOMAIN w |-> tolower(w[i])]

RECURSIVE CmpFrom(_, _, _)
CmpFrom(a, b, i) ==
    LET ca == IF i <= Len(a) THEN tolower(a[i]) ELSE 0
        cb == IF i <= Len(b) THEN tolower(b[i]) ELSE 0
    IN  IF ca # cb THEN ca - cb
        ELSE IF ca = 0 THEN 0
        ELSE CmpFrom(a, b, i + 1)

strcasecmp(a, b) == CmpFrom(a, b, 1)

---------------------------------------------------------------------------
(* hash_function: FNV-1a on 32-bit unsigned arithmetic.  The 32-bit value  *)
(* is kept as two 16-bit halves so that no intermediate leaves the range   *)
(* of machine integers of the checker.                                     *)

RECURSIVE XorBits(_, _, _)
XorBits(a, b, n) ==
    IF n = 0 THEN 0
    ELSE (((a % 2) + (b % 2)) % 2) + 2 * XorBits(a \div 2, b \div 2, n - 1)

\* tolower(*word) with *word a (signed) char, converted to unsigned int for ^=
CharAsUnsigned(b) ==
    IF b < 128 THEN [hi |-> 0, lo |-> tolower(b)]
    ELSE [hi |-> 65535, lo |-> 65280 + b]

\* hash ^= c; hash *= 16777619u   (16777619 = 256 * 65536 + 403)
FnvMix(h, c) ==
    LET xhi == XorBits(h.hi, c.hi, 16)
        xlo == XorBits(h.lo, c.lo, 16)
        low == xlo * 403
    IN  [hi |-> ((xhi * 403) + ((xlo * 256) % 65536) + (low \div 65536)) % 65536,
         lo |-> low % 65536]

FnvStep(h, b) == FnvMix(h, CharAsUnsigned(b))

RECURSIVE FnvFrom(_, _, _)
FnvFrom(h, word, i) ==
    IF i > Len(word) THEN h ELSE FnvFrom(FnvStep(h, word[i]), word, i + 1)

\* 2166136261 = 33052 * 65536 + 40389
Fnv1a(word) == FnvFrom([hi |-> 33052, lo |-> 40389], word, 1)

\* the words of the model, hashed once
KnownWords ==
    { <<97>>, <<65>>, <<98>>, <<66>>, <<99>>, <<100>>, <<101>>, <<102>>, <<103>> }

FnvOfKnown == [w \in KnownWords |-> Fnv1a(w)]

\* hash % size, for size >= 1
Reduce(h, size) ==
    ((((h.hi % size) * (65536 % size)) % size) + (h.lo % size)) % size

hash_function(word, size) ==
    Reduce(IF word \in KnownWords THEN FnvOfKnown[word] ELSE Fnv1a(word), size)

\* tolower(*word) where plain char is unsigned: the byte itself
CharOfUnsignedChar(b) == [hi |-> 0, lo |-> tolower(b)]

RECURSIVE FnvFromUnsignedChar(_, _, _)
FnvFromUnsignedChar(h, word, i) ==
    IF i > Len(word) THEN h
    ELSE FnvFromUnsignedChar(FnvMix(h, CharOfUnsignedChar(word[i])), word, i + 1)

\* hash_function as built with plain char signed (CharAsUnsigned) or
\* unsigned; the two differ on bytes above 127 only
hash_function_on(word, size, char_signed) ==
    IF char_signed THEN hash_function(word, size)
    ELSE Reduce(FnvFromUnsignedChar([hi |-> 33052, lo |-> 40389], word, 1), size)

---------------------------------------------------------------------------
(* The hash table *)

hash_create(size) == [size |-> size, entries |-> 0, table |-> <<>>]

\* an entry whose word and occurrences were free()d while a table still
\* points at them
FreedEntry == [word |-> <<-1>>, occurrences |-> <<>>, max_occurrences |-> 0]

RECURSIVE ResizeProbe(_, _, _, _)
ResizeProbe(new_table, index, initial_index, new_size) ==
    IF index \notin DOMAIN new_table THEN index
    ELSE LET nxt == (index + 1) % new_size
         IN  IF nxt = initial_index THEN -1
             ELSE ResizeProbe(new_table, nxt, initial_index, new_size)

\* the mutant of ResizeReinsert: entries are rehashed with the old size
RECURSIVE ResizeReinsert_OldHash(_, _, _, _, _)
ResizeReinsert_OldHash(old_table, old_size, new_size, i, new_table) ==
    IF i >= old_size THEN [ok |-> TRUE, table |-> new_table]
    ELSE IF i \notin DOMAIN old_table
    THEN ResizeReinsert_OldHash(old_table, old_size, new_size, i + 1, new_table)
    ELSE LET h0 == hash_function(old_table[i].word, old_size)
             index == ResizeProbe(new_table, h0, h0, new_size)
         IN  IF index = -1 THEN [ok |-> FALSE, table |-> new_table]
             ELSE ResizeReinsert_OldHash(old_table, old_size, new_size, i + 1,
                                         (index :> old_table[i]) @@ new_table)

RECURSIVE ResizeReinsert(_, _, _, _, _)
ResizeReinsert(old_table, old_size, new_size, i, new_table) ==
    IF i >= old_size THEN [ok |-> TRUE, table |-> new_table]
    ELSE IF i \notin DOMAIN old_table
    THEN ResizeReinsert(old_table, old_size, new_size, i + 1, new_table)
    ELSE LET h0 == hash_function(old_table[i].word, new_size)
             index == ResizeProbe(new_table, h0, h0, new_size)
         IN  IF index = -1 THEN [ok |-> FALSE, table |-> new_table]
             ELSE ResizeReinsert(old_table, old_size, new_size, i + 1,
                                 (index :> old_table[i]) @@ new_table)

\* lines 120-125 (success) and 100-108 (a probe that wrapped): on a wrap the
\* entries already moved are freed through the new table while the old
\* table keeps pointing at them
ResizeCommit(h, new_size, r) ==
    IF r.ok
    THEN [ok |-> TRUE, ht |-> [h EXCEPT !.size = new_size, !.table = r.table]]
    ELSE [ok |-> FALSE,
          ht |-> [h EXCEPT !.table =
                    [i \in DOMAIN h.table |->
                        IF h.table[i] \in Range(r.table)
                        THEN FreedEntry ELSE h.table[i]]]]

\* the mutant of hash_resize: the new size is published before the
\* allocation of the new slot array is checked
hash_resize_SizeFirst(h, calloc_ok) ==
    IF ~calloc_ok THEN [ok |-> FALSE, ht |-> [h EXCEPT !.size = h.size * 2 + 1]]
    ELSE ResizeCommit(h, h.size * 2 + 1,
                      ResizeReinsert(h.table, h.size, h.size * 2 + 1, 0, <<>>))

\* the mutant of hash_resize: the table grows by one slot only
hash_resize_GrowByOne(h, calloc_ok) ==
    IF ~calloc_ok THEN [ok |-> FALSE, ht |-> h]
    ELSE ResizeCommit(h, h.size + 1,
                      ResizeReinsert(h.table, h.size, h.size + 1, 0, <<>>))

\* calloc_ok: whether calloc of the new slot array succeeds
hash_resize(h, calloc_ok) ==
    IF ~calloc_ok THEN [ok |-> FALSE, ht |-> h]
    ELSE ResizeCommit(h, h.size * 2 + 1,
                      ResizeReinsert(h.table, h.size, h.size * 2 + 1, 0, <<>>))

\* ht->entries > ht->size * 0.7, in double arithmetic.  Exact for every size
\* that is not a multiple of 10 (there the rounded product can fall just
\* below the integer 7*size/10); the sizes of this model are of that kind.
\* the mutant of LoadExceeded: the entry about to be added is counted
LoadExceeded_CountingNew(entries, size) == 10 * (entries + 1) > 7 * size

\* the mutant of LoadExceeded: the table grows only once it is over-full
LoadExceeded_AboveFull(entries, size) == entries > size

LoadExceeded(entries, size) == 10 * entries > 7 * size

\* the mutant of InsertProbe: the stored word is compared byte for byte
RECURSIVE InsertProbe_ExactCase(_, _, _, _)
InsertProbe_ExactCase(h, word, index, initial_index) ==
    IF index \in DOMAIN h.table /\ h.table[index].word # word
    THEN LET nxt == (index + 1) % h.size
         IN  IF nxt = initial_index THEN -1
             ELSE InsertProbe_ExactCase(h, word, nxt, initial_index)
    ELSE index

RECURSIVE InsertProbe(_, _, _, _)
InsertProbe(h, word, index, initial_index) ==
    IF index \in DOMAIN h.table /\ strcasecmp(h.table[index].word, word) # 0
    THEN LET nxt == (index + 1) % h.size
         IN  IF nxt = initial_index THEN -1
             ELSE InsertProbe(h, word, nxt, initial_index)
    ELSE index

RECURSIVE ShiftIndex(_, _, _)
ShiftIndex(occ, i, position) ==
    IF i > 0 /\ occ[i] > position THEN ShiftIndex(occ, i - 1, position) ELSE i

\* the mutant of InsertOrdered: append, no shifting
InsertOrdered_Append(occ, position) == Append(occ, position)

InsertOrdered(occ, position) ==
    LET i == ShiftIndex(occ, Len(occ), position)
    IN  SubSeq(occ, 1, i) \o <<position>> \o SubSeq(occ, i + 1, Len(occ))

\* the mutant of AddOccurrence: no scan for an already recorded position
AddOccurrence_NoDupScan(e, position) ==
    [e EXCEPT !.occurrences = InsertOrdered(e.occurrences, position)]

\* lines 171-197 of hash_insert on the entry found or created
AddOccurrence(e, position) ==
    IF position \in Range(e.occurrences) THEN e
    ELSE [e EXCEPT
            !.max_occurrences =
                IF Len(e.occurrences) >= @ THEN @ * 2 ELSE @,
            !.occurrences = InsertOrdered(e.occurrences, position)]

\* the mutant of NewEntry: the entry is created but not counted
NewEntry_NotCounted(h, index, word) ==
    [h EXCEPT !.table = (index :> [word |-> word, occurrences |-> <<>>,
                                   max_occurrences |-> DEFAULT_OCCURRENCES])
                        @@ h.table]

\* lines 153-169 of hash_insert
NewEntry(h, index, word) ==
    [h EXCEPT !.table = (index :> [word |-> word, occurrences |-> <<>>,
                                   max_occurrences |-> DEFAULT_OCCURRENCES])
                        @@ h.table,
              !.entries = @ + 1]

\* lines 133-138: resize when the load factor is exceeded
ResizeIfNeeded(h, fail) ==
    IF LoadExceeded(h.entries, h.size) THEN hash_resize(h, fail # "resize")
    ELSE [ok |-> TRUE, ht |-> h]

InsertOutcome(occ, position) ==
    IF position \in Range(occ) THEN "duplicate"
    ELSE IF \E q \in Range(occ) : q > position THEN "inserted_before"
    ELSE "inserted"

\* lines 171-197 on slot index of table t
StoreAt(t, index, position, old_size) ==
    [ht |-> [t EXCEPT !.table[index] = AddOccurrence(@, position)],
     result |-> InsertOutcome(t.table[index].occurrences, position),
     resized |-> t.size # old_size]

\* lines 147-169: index is where the probe stopped, -1 when it wrapped
InsertAt(t, word, position, fail, index, old_size) ==
    IF index = -1
    THEN [ht |-> t, result |-> "full", resized |-> t.size # old_size]
    ELSE IF index \in DOMAIN t.table
    THEN StoreAt(t, index, position, old_size)
    ELSE IF fail \in {"strdup", "malloc"}
    THEN [ht |-> t, result |-> "alloc_failed", resized |-> t.size # old_size]
    ELSE StoreAt(NewEntry(t, index, word), index, position, old_size)

InsertProbeFrom(t, word, h0) == InsertProbe(t, word, h0, h0)

InsertInto(rz, word, position, fail, old_size) ==
    IF ~rz.ok
    THEN [ht |-> rz.ht, result |-> "resize_failed", resized |-> FALSE]
    ELSE InsertAt(rz.ht, word, position, fail,
                  InsertProbeFrom(rz.ht, word, hash_function(word, rz.ht.size)),
                  old_size)

\* fail names the allocation that returns NULL in this call: "none",
\* "resize" (calloc in hash_resize), "strdup" or "malloc" (new entry).
\* The value is the table after the call, the return path taken, and
\* whether hash_resize succeeded in it.
hash_insert(h, word, position, fail) ==
    InsertInto(ResizeIfNeeded(h, fail), word, position, fail, h.size)

\* lines 144-150: the slots whose word the loop of hash_insert reads
RECURSIVE InsertProbeVisits(_, _, _, _)
InsertProbeVisits(h, word, index, initial_index) ==
    IF index \in DOMAIN h.table /\ strcasecmp(h.table[index].word, word) # 0
    THEN LET nxt == (index + 1) % h.size
         IN  IF nxt = initial_index THEN 1
             ELSE 1 + InsertProbeVisits(h, word, nxt, initial_index)
    ELSE 1

\* lines 209-216: the slots whose word the loop of hash_search reads
RECURSIVE SearchProbeVisits(_, _, _, _)
SearchProbeVisits(h, word, index, initial_index) ==
    IF index \notin DOMAIN h.table THEN 1
    ELSE IF strcasecmp(h.table[index].word, word) = 0 THEN 1
    ELSE LET nxt == (index + 1) % h.size
         IN  IF nxt = initial_index THEN 1
             ELSE 1 + SearchProbeVisits(h, word, nxt, initial_index)

\* the mutant of SearchProbe: after the probe has wrapped, the slot it
\* started from is returned
RECURSIVE SearchProbe_WrapFinds(_, _, _, _)
SearchProbe_WrapFinds(h, word, index, initial_index) ==
    IF index \notin DOMAIN h.table THEN -1
    ELSE IF strcasecmp(h.table[index].word, word) = 0 THEN index
    ELSE LET nxt == (index + 1) % h.size
         IN  IF nxt = initial_index THEN initial_index
             ELSE SearchProbe_WrapFinds(h, word, nxt, initial_index)

RECURSIVE SearchProbe(_, _, _, _)
SearchProbe(h, word, index, initial_index) ==
    IF index \notin DOMAIN h.table THEN -1
    ELSE IF strcasecmp(h.table[index].word, word) = 0 THEN index
    ELSE LET nxt == (index + 1) % h.size
         IN  IF nxt = initial_index THEN -1
             ELSE SearchProbe(h, word, nxt, initial_index)

SearchProbeFrom(h, word, h0) == SearchProbe(h, word, h0, h0)

NotFound == [found |-> FALSE, occurrences |-> <<>>]

\* nothing printed yet
\* util.c 52-63: texto_hash, texto_trie, keywords_hash and keywords_trie are
\* zero-initialised statics with num_keywords_hash = num_keywords_trie = 0
SemCopias ==
    [texto_hash |-> <<>>, texto_trie |-> <<>>,
     keywords_hash |-> <<>>, keywords_trie |-> <<>>]

NoReport == [status |-> "none", entries |-> <<>>, not_found |-> <<>>]

SearchResult(h, index) ==
    IF index = -1 THEN NotFound
    ELSE [found |-> TRUE, occurrences |-> h.table[index].occurrences]

\* returns NULL with *num_occurrences = 0, or the occurrence array
hash_search(h, word) ==
    SearchResult(h, SearchProbeFrom(h, word, hash_function(word, h.size)))

---------------------------------------------------------------------------
(* The trie.  A trie is a function from the paths of its nodes (sequences  *)
(* of child indices 0..26, the root being the empty path) to the nodes:    *)
(* children[i] of the node at path p is non-NULL exactly when Append(p, i) *)
(* is in the domain.  NULL (no trie, no table) is the empty function.      *)

NULL == <<>>

MAX_WORD_SIZE == 100

\* a NULL original_word / stored_utf8 is the empty string: neither is ever
\* set to an empty string
trie_create_node ==
    [is_end_of_word |-> FALSE, occurrences |-> <<>>,
     max_occurrences |-> DEFAULT_OCCURRENCES,
     original_word |-> <<>>, stored_utf8 |-> <<>>]

\* the byte at a 1-based offset of a C string; the terminating NUL included
ByteAt(str, i) == IF i <= Len(str) THEN str[i] ELSE 0

\* get_next_utf8_char: the length read off the lead byte
CharLen(first_byte) ==
    IF first_byte < 128 THEN 1
    ELSE IF first_byte >= 192 /\ first_byte < 224 THEN 2
    ELSE IF first_byte >= 224 /\ first_byte < 240 THEN 3
    ELSE IF first_byte >= 240 /\ first_byte < 248 THEN 4
    ELSE 1

\* the switch on c1 when c0 == 0xC3; 0 stands for "no case matched"
AccentCase(c1) ==
    CASE c1 \in {135, 167} -> 99
      [] c1 \in {131, 163, 129, 161} -> 97
      [] c1 \in {149, 181, 147, 179} -> 111
      [] c1 \in {137, 169} -> 101
      [] c1 \in {141, 173} -> 105
      [] c1 \in {154, 186, 156, 188} -> 117
      [] OTHER -> 0

\* c0, c1: the first two bytes of the buffer filled by get_next_utf8_char
normalize_utf8_char(c0, c1) ==
    IF c0 = 195 /\ AccentCase(c1) # 0 THEN AccentCase(c1)
    ELSE IF c0 = 45 THEN 45
    ELSE tolower(c0)

\* the child index of a normalized character, -1 when it is skipped
ChildIndex(normalized) ==
    IF normalized = 45 THEN 26
    ELSE IF normalized >= 97 /\ normalized <= 122 THEN normalized - 97
    ELSE -1

\* the bytes strdup() copies out of the buffer: up to the first NUL
RECURSIVE UpToNul(_, _, _)
UpToNul(str, i, n) ==
    IF n = 0 \/ ByteAt(str, i) = 0 THEN <<>>
    ELSE <<str[i]>> \o UpToNul(str, i + 1, n - 1)

\* the loop shared by trie_insert and trie_search: the accepted characters
\* of word from offset i on, each with its child index and its raw bytes
RECURSIVE TrieSteps(_, _)
TrieSteps(word, i) ==
    IF i > Len(word) THEN <<>>
    ELSE IF ChildIndex(normalize_utf8_char(word[i],
                IF CharLen(word[i]) >= 2 THEN ByteAt(word, i + 1) ELSE 0)) = -1
    THEN TrieSteps(word, i + CharLen(word[i]))
    ELSE <<[index |-> ChildIndex(normalize_utf8_char(word[i],
                        IF CharLen(word[i]) >= 2 THEN ByteAt(word, i + 1) ELSE 0)),
            utf8 |-> UpToNul(word, i, CharLen(word[i]))]>>
         \o TrieSteps(word, i + CharLen(word[i]))

TriePath(word) == [k \in DOMAIN TrieSteps(word, 1) |-> TrieSteps(word, 1)[k].index]

\* lines 165-176: the nodes created along the path
WithPathNodes(trie, steps) ==
    [p \in DOMAIN trie \cup
           {[k \in 1..n |-> steps[k].index] : n \in 1..Len(steps)} |->
        IF p \in DOMAIN trie THEN trie[p]
        ELSE [trie_create_node EXCEPT !.stored_utf8 = steps[Len(p)].utf8]]

\* strncpy(original_word, word, MAX_WORD_SIZE - 1)
Truncated(word) ==
    IF Len(word) <= MAX_WORD_SIZE - 1 THEN word
    ELSE SubSeq(word, 1, MAX_WORD_SIZE - 1)

\* the mutant of MarkEnd: a later surface form overwrites the stored one
MarkEnd_Overwrite(node, word, position) ==
    [node EXCEPT
        !.is_end_of_word = TRUE,
        !.original_word = Truncated(word),
        !.max_occurrences = IF Len(node.occurrences) >= @ THEN @ * 2 ELSE @,
        !.occurrences = Append(@, position)]

\* lines 183-208 on the terminal node
MarkEnd(node, word, position) ==
    [node EXCEPT
        !.is_end_of_word = TRUE,
        !.original_word = IF @ = <<>> THEN Truncated(word) ELSE @,
        !.max_occurrences = IF Len(node.occurrences) >= @ THEN @ * 2 ELSE @,
        !.occurrences = Append(@, position)]

InsertAlong(trie, path, word, position) ==
    IF path = <<>> THEN trie
    ELSE [trie EXCEPT ![path] = MarkEnd(@, word, position)]

trie_insert(trie, word, position) ==
    IF trie = NULL \/ position < 0 THEN trie
    ELSE InsertAlong(WithPathNodes(trie, TrieSteps(word, 1)), TriePath(word),
                     word, position)

\* the child indices of the first n steps
PrefixOf(steps, n) == [k \in 1..n |-> steps[k].index]

\* the number of steps walked before the first node that has to be created;
\* Len(steps) when the whole path exists
ExistingDepth(trie, steps) ==
    IF \A n \in 1..Len(steps) : PrefixOf(steps, n) \in DOMAIN trie THEN Len(steps)
    ELSE (CHOOSE n \in 1..Len(steps) :
            /\ PrefixOf(steps, n) \notin DOMAIN trie
            /\ \A m \in 1..(n - 1) : PrefixOf(steps, m) \in DOMAIN trie) - 1

\* lines 166-175 when strdup(utf8_char) returns NULL: the child is linked
\* with stored_utf8 == NULL and the call returns
ChildWithoutUtf8(trie, steps, depth) ==
    (PrefixOf(steps, depth + 1) :> trie_create_node) @@ trie

\* lines 183-192 when strdup(original_word) returns NULL: the node is marked
\* and the call returns before the position is stored
EndWithoutWord(trie, path) ==
    [trie EXCEPT ![path].is_end_of_word = TRUE]

\* whether the allocation named by fail is made by trie_insert(trie, word, ..)
FailApplies(trie, word, fail) ==
    CASE fail = "strdup_utf8" ->
            ExistingDepth(trie, TrieSteps(word, 1)) < Len(TrieSteps(word, 1))
      [] fail = "strdup_word" ->
            /\ TriePath(word) # <<>>
            /\ (TriePath(word) \in DOMAIN trie => trie[TriePath(word)].original_word = <<>>)
      [] OTHER -> FALSE

\* trie_insert during which the allocation named by fail returns NULL
trie_insert_failing(trie, word, position, fail) ==
    IF trie = NULL \/ position < 0 \/ ~FailApplies(trie, word, fail) THEN trie
    ELSE IF fail = "strdup_utf8"
    THEN ChildWithoutUtf8(trie, TrieSteps(word, 1),
                          ExistingDepth(trie, TrieSteps(word, 1)))
    ELSE EndWithoutWord(WithPathNodes(trie, TrieSteps(word, 1)), TriePath(word))

\* the mutant of SearchAlong: the node reached is not asked for is_end_of_word
SearchAlong_AnyNode(trie, path) ==
    IF \E n \in 1..Len(path) : SubSeq(path, 1, n) \notin DOMAIN trie
    THEN NotFound
    ELSE [found |-> TRUE, occurrences |-> trie[path].occurrences]

\* the child index trie_insert and trie_search compute for the character at
\* offset i of word, -1 when the character is skipped
StepIndex(word, i) ==
    ChildIndex(normalize_utf8_char(word[i],
        IF CharLen(word[i]) >= 2 THEN ByteAt(word, i + 1) ELSE 0))

\* trie.c 145-180: the 1-based offset of ptr when the loop of trie_insert
\* leaves the bytes of word; Len(word) + 1 is the offset of the NUL.  Both
\* branches of the loop add char_len, the length announced by the lead byte.
RECURSIVE InsertCursor(_, _)
InsertCursor(word, i) ==
    IF i > Len(word) THEN i ELSE InsertCursor(word, i + CharLen(word[i]))

\* trie.c 220-246: the same for trie_search, which returns where the child
\* it needs is missing; p is the path walked so far
RECURSIVE SearchCursor(_, _, _, _)
SearchCursor(trie, word, i, p) ==
    IF i > Len(word) THEN i
    ELSE IF StepIndex(word, i) = -1
    THEN SearchCursor(trie, word, i + CharLen(word[i]), p)
    ELSE IF Append(p, StepIndex(word, i)) \notin DOMAIN trie THEN i
    ELSE SearchCursor(trie, word, i + CharLen(word[i]), Append(p, StepIndex(word, i)))

\* trie_insert when ptr has stepped over the NUL of word: the loop goes on
\* over the bytes that follow in memory, beyond, up to the next zero byte
trie_insert_beyond(trie, word, position, beyond) ==
    InsertAlong(WithPathNodes(trie, TrieSteps(word, 1) \o TrieSteps(beyond, 1)),
                TriePath(word) \o TriePath(beyond), word, position)

SearchAlong(trie, path) ==
    IF \E n \in 1..Len(path) : SubSeq(path, 1, n) \notin DOMAIN trie
    THEN NotFound
    ELSE IF trie[path].is_end_of_word
    THEN [found |-> TRUE, occurrences |-> trie[path].occurrences]
    ELSE NotFound

trie_search(trie, word) ==
    IF trie = NULL THEN NotFound ELSE SearchAlong(trie, TriePath(word))

---------------------------------------------------------------------------
(* The index builders.  Corpus arrays are two parallel sequences; the      *)
(* leading count posicoes[i][0] of the C layout is Len(posicoes[i]).       *)

\* lines 234-239: the auxiliary keyword table
RECURSIVE InsertKeywords(_, _, _)
InsertKeywords(keyword_ht, kws, i) ==
    IF i > Len(kws) THEN keyword_ht
    ELSE InsertKeywords(IF kws[i] # <<>>
                        THEN hash_insert(keyword_ht, kws[i], -1, "none").ht
                        ELSE keyword_ht,
                        kws, i + 1)

\* lines 246-248: every recorded position of one corpus word
RECURSIVE InsertPositions(_, _, _, _)
InsertPositions(h, word, pos, j) ==
    IF j > Len(pos) THEN h
    ELSE InsertPositions(hash_insert(h, word, pos[j], "none").ht, word, pos, j + 1)

\* the mutant of ProcessWords: no membership test against the keywords
RECURSIVE ProcessWords_NoFilter(_, _, _, _, _)
ProcessWords_NoFilter(h, keyword_ht, words, positions, i) ==
    IF i > Len(words) THEN h
    ELSE ProcessWords_NoFilter(IF words[i] # <<>>
                               THEN InsertPositions(h, words[i], positions[i], 1)
                               ELSE h,
                               keyword_ht, words, positions, i + 1)

\* lines 242-251: the corpus words that are keywords go to the main index
RECURSIVE ProcessWords(_, _, _, _, _)
ProcessWords(h, keyword_ht, words, positions, i) ==
    IF i > Len(words) THEN h
    ELSE ProcessWords(IF words[i] # <<>> /\ hash_search(keyword_ht, words[i]).found
                      THEN InsertPositions(h, words[i], positions[i], 1)
                      ELSE h,
                      keyword_ht, words, positions, i + 1)

\* lines 229-230
MainSize(num_keywords) ==
    IF num_keywords * 2 < INITIAL_HASH_SIZE THEN INITIAL_HASH_SIZE
    ELSE num_keywords * 2

\* With num_keywords = 0 the auxiliary table is hash_create(0): calloc(0, ..)
\* may return NULL, and hash_create then calls exit(EXIT_FAILURE)
\* ("calloc_null"); otherwise the first hash_search of a corpus word
\* evaluates hash % 0, which is undefined: the division traps ("trap"), or
\* it yields some index and the probe reads outside the zero-length array,
\* which faults (again "trap") or happens to read a NULL word ("stray_read").
ZeroSizeOutcomes == {"calloc_null", "trap", "stray_read"}

\* lines 226-231: the table *ht pointed to is destroyed if there was one, and
\* *ht is a new empty table in either case
NewMainTable(old, size) == hash_create(size)

\* old is the table *ht points to on entry (NULL if none);
\* the value is the main table and how the call ended: "ok" (returned 1),
\* "exit" or "crash"
criar_indice_hash_on(old, words, positions, kws, zero) ==
    IF Len(kws) = 0 /\ zero = "calloc_null"
    THEN [ht |-> NewMainTable(old, MainSize(0)), ret |-> "exit"]
    ELSE IF Len(kws) = 0 /\ zero = "trap" /\ \E i \in DOMAIN words : words[i] # <<>>
    THEN [ht |-> NewMainTable(old, MainSize(0)), ret |-> "crash"]
    ELSE IF Len(kws) = 0
    THEN [ht |-> NewMainTable(old, MainSize(0)), ret |-> "ok"]
    ELSE [ht |-> ProcessWords(NewMainTable(old, MainSize(Len(kws))),
                              InsertKeywords(hash_create(Len(kws) * 2), kws, 1),
                              words, positions, 1),
          ret |-> "ok"]

\* criar_indice_hash with *ht == NULL on entry
criar_indice_hash(words, positions, kws, zero) ==
    criar_indice_hash_on(NULL, words, positions, kws, zero)

\* the mutant of ShiftDown: equal words are moved past each other
RECURSIVE ShiftDown_NonStrict(_, _, _)
ShiftDown_NonStrict(temp, key, j) ==
    IF j >= 1 /\ strcasecmp(temp[j].palavra, key.palavra) >= 0
    THEN ShiftDown_NonStrict(temp, key, j - 1)
    ELSE j + 1

\* lines 381-384 of the insertion sort: where temp[i] comes to rest
RECURSIVE ShiftDown(_, _, _)
ShiftDown(temp, key, j) ==
    IF j >= 1 /\ strcasecmp(temp[j].palavra, key.palavra) > 0
    THEN ShiftDown(temp, key, j - 1)
    ELSE j + 1

\* the mutant of MoveTo: temp[i] and temp[dest] change places
MoveTo_Swap(temp, i, dest) ==
    [k \in DOMAIN temp |->
        IF k = dest THEN temp[i]
        ELSE IF k = i THEN temp[dest]
        ELSE temp[k]]

MoveTo(temp, i, dest) ==
    [k \in DOMAIN temp |->
        IF k < dest \/ k > i THEN temp[k]
        ELSE IF k = dest THEN temp[i]
        ELSE temp[k - 1]]

RECURSIVE InsertionSort(_, _)
InsertionSort(temp, i) ==
    IF i > Len(temp) THEN temp
    ELSE InsertionSort(MoveTo(temp, i, ShiftDown(temp, temp[i], i - 1)), i + 1)

Paired(words, positions) ==
    [i \in DOMAIN words |-> [palavra |-> words[i], posicoes |-> positions[i]]]

\* the arrays are sorted in place; the value is the sequence of pairs
sort_palavras_com_posicoes(words, positions) ==
    InsertionSort(Paired(words, positions), 2)

\* the mutant of BinarySearch: the loop runs while left < right
RECURSIVE BinarySearch_Exclusive(_, _, _, _)
BinarySearch_Exclusive(words, palavra, left, right) ==
    IF left >= right THEN -1
    ELSE IF strcasecmp(words[(left + ((right - left) \div 2)) + 1], palavra) = 0
    THEN left + ((right - left) \div 2)
    ELSE IF strcasecmp(words[(left + ((right - left) \div 2)) + 1], palavra) < 0
    THEN BinarySearch_Exclusive(words, palavra, (left + ((right - left) \div 2)) + 1, right)
    ELSE BinarySearch_Exclusive(words, palavra, left, (left + ((right - left) \div 2)) - 1)

\* lines 337-350: how many times the loop body of binary_search_word runs
RECURSIVE BinarySearchIterations(_, _, _, _)
BinarySearchIterations(words, palavra, left, right) ==
    IF left > right THEN 0
    ELSE IF strcasecmp(words[(left + ((right - left) \div 2)) + 1], palavra) = 0
    THEN 1
    ELSE IF strcasecmp(words[(left + ((right - left) \div 2)) + 1], palavra) < 0
    THEN 1 + BinarySearchIterations(words, palavra, (left + ((right - left) \div 2)) + 1, right)
    ELSE 1 + BinarySearchIterations(words, palavra, left, (left + ((right - left) \div 2)) - 1)

\* left, right and the result are the 0-based indices of the C code
RECURSIVE BinarySearch(_, _, _, _)
BinarySearch(words, palavra, left, right) ==
    IF left > right THEN -1
    ELSE IF strcasecmp(words[(left + ((right - left) \div 2)) + 1], palavra) = 0
    THEN left + ((right - left) \div 2)
    ELSE IF strcasecmp(words[(left + ((right - left) \div 2)) + 1], palavra) < 0
    THEN BinarySearch(words, palavra, (left + ((right - left) \div 2)) + 1, right)
    ELSE BinarySearch(words, palavra, left, (left + ((right - left) \div 2)) - 1)

binary_search_word(words, palavra) ==
    BinarySearch(words, palavra, 0, Len(words) - 1)

\* lines 415-417
RECURSIVE TrieInsertPositions(_, _, _, _)
TrieInsertPositions(t, word, pos, k) ==
    IF k > Len(pos) THEN t
    ELSE TrieInsertPositions(trie_insert(t, word, pos[k]), word, pos, k + 1)

KeywordFound(t, temp, kw, j) ==
    IF j >= 0 THEN TrieInsertPositions(t, kw, temp[j + 1].posicoes, 1) ELSE t

\* lines 411-419
RECURSIVE TrieKeywords(_, _, _, _)
TrieKeywords(t, temp, kws, i) ==
    IF i > Len(kws) THEN t
    ELSE TrieKeywords(
            KeywordFound(t, temp, kws[i],
                binary_search_word([k \in DOMAIN temp |-> temp[k].palavra], kws[i])),
            temp, kws, i + 1)

\* the mutant of NewRoot: an existing trie is kept and built upon
NewRoot_Reuse(old) == IF old = NULL THEN (<<>> :> trie_create_node) ELSE old

\* lines 400-405: the trie *root pointed to is destroyed if there was one,
\* and *root is a new node in either case
NewRoot(old) == (<<>> :> trie_create_node)

BuiltTrieOn(old, temp, kws) ==
    [root |-> TrieKeywords(NewRoot(old), temp, kws, 1),
     palavras |-> [k \in DOMAIN temp |-> temp[k].palavra],
     posicoes |-> [k \in DOMAIN temp |-> temp[k].posicoes],
     ret |-> 1]

\* old is the trie *root points to on entry (NULL if none); the value is the
\* new trie, the caller's arrays as the sort left them, and the return value
criar_indice_trie_on(old, words, positions, kws) ==
    BuiltTrieOn(old, sort_palavras_com_posicoes(words, positions), kws)

\* criar_indice_trie with *root == NULL on entry
criar_indice_trie(words, positions, kws) ==
    criar_indice_trie_on(NULL, words, positions, kws)

\* util.c 122: the delimiters given to strtok_r,
\* " \t\n\r\f\v.,;:!?\"'()[]{}-"
Delimiters ==
    {32, 9, 10, 13, 12, 11, 46, 44, 59, 58, 33, 63, 34, 39, 40, 41, 91, 93, 123, 125, 45}

\* util.c 122-148: the tokens strtok_r returns, the maximal runs of bytes
\* that are not delimiters
RECURSIVE StrtokFrom(_, _, _)
StrtokFrom(text, i, token) ==
    IF i > Len(text) THEN (IF token # <<>> THEN <<token>> ELSE <<>>)
    ELSE IF text[i] \notin Delimiters THEN StrtokFrom(text, i + 1, Append(token, text[i]))
    ELSE (IF token # <<>> THEN <<token>> ELSE <<>>) \o StrtokFrom(text, i + 1, <<>>)

\* util.c 131-134: every token is stored in lower case
LowerTokens(tokens) == [i \in DOMAIN tokens |-> LowerStr(tokens[i])]

\* util.c 151-160: the list of entry i (C index i - 1) takes the C index j of
\* every entry whose word is strcmp-equal, in ascending order of j
CountOccurrences(words, i) ==
    SortedSeq({j - 1 : j \in {k \in DOMAIN words : words[k] = words[i]}})

WithOccurrences(words) ==
    [words |-> words, positions |-> [i \in DOMAIN words |-> CountOccurrences(words, i)]]

\* the text is shorter than MAX_TEXT_SIZE tokens; the value is the arrays
\* palavras and posicoes up to *num_palavras, each list without its count
processar_texto(text) == WithOccurrences(LowerTokens(StrtokFrom(text, 1, <<>>)))

\* line 445 of tokenize_text: isalnum in the "C" locale, '-', or a byte > 127
IsWordChar(c) ==
    \/ c >= 48 /\ c <= 57
    \/ c >= 65 /\ c <= 90
    \/ c >= 97 /\ c <= 122
    \/ c = 45
    \/ c > 127

RECURSIVE TokenizeFrom(_, _, _)
TokenizeFrom(text, i, word) ==
    IF i > Len(text) THEN (IF word # <<>> THEN <<word>> ELSE <<>>)
    ELSE IF IsWordChar(text[i]) THEN TokenizeFrom(text, i + 1, Append(word, text[i]))
    ELSE (IF word # <<>> THEN <<word>> ELSE <<>>) \o TokenizeFrom(text, i + 1, <<>>)

\* every token is one entry, with the single position pos = 1, 2, ..
WithPositions(words) ==
    [words |-> words, positions |-> [i \in DOMAIN words |-> <<i>>]]

tokenize_text(text) == WithPositions(TokenizeFrom(text, 1, <<>>))

TextoBuilt(old, tk, kws) ==
    IF Len(tk.words) = 0 THEN [root |-> NULL, ret |-> 0]
    ELSE [root |-> criar_indice_trie_on(old, tk.words, tk.positions, kws).root, ret |-> 1]

\* ret = 0: no token, *root is left alone (the root field is then unused)
criar_indice_trie_texto(old, text, kws) == TextoBuilt(old, tokenize_text(text), kws)

---------------------------------------------------------------------------
(* The reporters.  What is printed is a record: the "word: positions"      *)
(* lines in order, and the keywords printed as not found in the text.      *)

\* qsort with compare_entries / compare_word_entries (strcasecmp); no two
\* entries of one index compare equal, so the order is determined
RECURSIVE SortedEntries(_)
SortedEntries(S) ==
    IF S = {} THEN <<>>
    ELSE LET m == CHOOSE x \in S : \A y \in S : strcasecmp(x.word, y.word) <= 0
         IN  <<m>> \o SortedEntries(S \ {m})

\* the keywords at the indices of the set idx, in list order
KeywordsAt(kws, idx) == [k \in 1..Cardinality(idx) |-> kws[SortedSeq(idx)[k]]]

\* hash.c 303-308: the first keyword equal to the word of an entry, 0 if none
FirstMatch(kws, word) ==
    IF \E j \in DOMAIN kws : strcasecmp(kws[j], word) = 0
    THEN CHOOSE j \in DOMAIN kws :
            /\ strcasecmp(kws[j], word) = 0
            /\ \A k \in 1..(j - 1) : strcasecmp(kws[k], word) # 0
    ELSE 0

\* hash.c 296-312: the indices j with found_keywords[j] = 1
FoundKeywords(h, kws) ==
    {FirstMatch(kws, h.table[i].word) : i \in DOMAIN h.table} \ {0}

HashEntries(h) ==
    {[word |-> h.table[i].word, positions |-> h.table[i].occurrences] :
        i \in DOMAIN h.table}

\* zero_null: calloc(0, ..) and malloc(0) return NULL on this platform
imprimir_indice_hash(h, kws, zero_null) ==
    IF h = NULL
    THEN [status |-> "not_created", entries |-> <<>>, not_found |-> <<>>]
    ELSE IF zero_null /\ (Len(kws) = 0 \/ h.entries = 0)
    THEN [status |-> "alloc_failed", entries |-> <<>>, not_found |-> <<>>]
    ELSE [status |-> "printed",
          entries |-> SortedEntries(HashEntries(h)),
          not_found |-> KeywordsAt(kws,
              {j \in DOMAIN kws : j \notin FoundKeywords(h, kws) /\ kws[j] # <<>>})]

\* trie.c 257-288: one word per end-of-word node, under its original_word
trie_get_all_words(trie) ==
    {[word |-> trie[p].original_word, positions |-> trie[p].occurrences] :
        p \in {q \in DOMAIN trie : trie[q].is_end_of_word}}

SortedWords(entries) == [k \in DOMAIN entries |-> entries[k].word]

TrieReport(entries, kws) ==
    [status |-> "printed",
     entries |-> entries,
     not_found |-> KeywordsAt(kws,
         {j \in DOMAIN kws : binary_search_word(SortedWords(entries), kws[j]) = -1})]

imprimir_indice_trie(trie, kws, zero_null) ==
    IF trie = NULL
    THEN [status |-> "not_created", entries |-> <<>>, not_found |-> <<>>]
    ELSE IF zero_null /\ trie_get_all_words(trie) = {}
    THEN [status |-> "alloc_failed", entries |-> <<>>, not_found |-> <<>>]
    ELSE TrieReport(SortedEntries(trie_get_all_words(trie)), kws)

---------------------------------------------------------------------------
(* The hash table as a state machine: a table created with some capacity,  *)
(* then any sequence of hash_insert calls.                                 *)

GrowPool == << <<97>>, <<65>>, <<98>>, <<99>>, <<100>>, <<101>>, <<102>>, <<103>> >>

GrowWords == {GrowPool[i] : i \in 1..MaxWords}

OccPool == << <<97>>, <<98>>, <<65>>, <<66>>, <<99>> >>

OccWords == {OccPool[i] : i \in 1..MaxOccWords}

Init ==
    /\ ht \in {hash_create(c) : c \in 1..MaxInitSize}
    /\ inserted = {}
    /\ resizes = 0
    /\ ret = "created"
    /\ root = NULL
    /\ palavras = <<>>
    /\ posicoes = <<>>
    /\ keywords = <<>>
    /\ texto = <<>>
    /\ saida = NoReport
    /\ calls = <<>>
    /\ destroyed = 0
    /\ value = 0
    /\ copias = SemCopias

HashInsert(word, position) ==
    LET r == hash_insert(ht, word, position, "none")
    IN  /\ ht' = r.ht
        /\ inserted' = inserted \cup {<<word, position>>}
        /\ resizes' = IF r.resized THEN resizes + 1 ELSE resizes
        /\ ret' = r.result
        /\ UNCHANGED <<root, palavras, posicoes, keywords, texto, saida, calls, destroyed, value, copias>>

\* a hash_insert call during which one allocation fails
HashInsertAllocFail(word, position, fail) ==
    LET r == hash_insert(ht, word, position, fail)
    IN  /\ r.result \in {"resize_failed", "alloc_failed"}
        /\ ht' = r.ht
        /\ resizes' = IF r.resized THEN resizes + 1 ELSE resizes
        /\ ret' = r.result
        /\ UNCHANGED <<inserted, root, palavras, posicoes, keywords, texto, saida, calls, destroyed, value, copias>>

\* growth machine: many words, every one at position 1
Next ==
    \/ \E w \in GrowWords : HashInsert(w, 1)
    \/ \E w \in GrowWords, f \in {"resize", "strdup", "malloc"} :
          HashInsertAllocFail(w, 1, f)

Spec == Init /\ [][Next]_vars

\* occurrence machine: few words, positions in any order and with repeats
NextOcc ==
    \/ \E w \in OccWords, p \in 1..MaxPos : HashInsert(w, p)
    \/ \E w \in OccWords, p \in 1..MaxPos, f \in {"resize", "strdup", "malloc"} :
          HashInsertAllocFail(w, p, f)

SpecOcc == Init /\ [][NextOcc]_vars

---------------------------------------------------------------------------
(* The builders as a state machine: corpus arrays and a keyword list are   *)
(* loaded, then criar_indice_hash and criar_indice_trie run in any order,  *)
(* any number of times, until one of them ends the process.                *)

CorpusWords == {<<97>>, <<98>>}

PositionLists == {<<1>>, <<2>>, <<1, 2>>}

CorpusEntries == [palavra : CorpusWords, posicoes : PositionLists]

KeywordPool == {<<97>>, <<65>>, <<98>>}

InitBuild ==
    /\ ht = NULL
    /\ root = NULL
    /\ inserted = {}
    /\ resizes = 0
    /\ ret = "loaded"
    /\ texto = <<>>
    /\ saida = NoReport
    /\ calls = <<>>
    /\ destroyed = 0
    /\ value = 0
    /\ copias = SemCopias
    /\ \E corpus \in SeqsUpTo(CorpusEntries, MaxCorpus) :
          /\ palavras = [i \in DOMAIN corpus |-> corpus[i].palavra]
          /\ posicoes = [i \in DOMAIN corpus |-> corpus[i].posicoes]
    /\ keywords \in SeqsUpTo(KeywordPool, MaxKeywords)

Ended == ret \in {"exit", "crash"}

HashBuilt(r) ==
    /\ ht' = r.ht
    /\ ret' = IF r.ret = "ok" THEN "hash_built" ELSE r.ret
    /\ UNCHANGED <<inserted, resizes, root, palavras, posicoes, keywords, texto, saida, calls, destroyed, value, copias>>

CriarIndiceHash ==
    /\ ~Ended
    /\ \E zero \in ZeroSizeOutcomes :
          HashBuilt(criar_indice_hash_on(ht, palavras, posicoes, keywords, zero))

TrieBuilt(r) ==
    /\ root' = r.root
    /\ palavras' = r.palavras
    /\ posicoes' = r.posicoes
    /\ ret' = "trie_built"
    /\ UNCHANGED <<ht, inserted, resizes, keywords, texto, saida, calls, destroyed, value, copias>>

CriarIndiceTrie ==
    /\ ~Ended
    /\ TrieBuilt(criar_indice_trie_on(root, palavras, posicoes, keywords))

NextBuild == CriarIndiceHash \/ CriarIndiceTrie

SpecBuild == InitBuild /\ [][NextBuild]_vars

(* the builders followed by the reporters *)

ImprimirIndiceHash ==
    /\ ~Ended
    /\ \E zero_null \in BOOLEAN :
          saida' = imprimir_indice_hash(ht, keywords, zero_null)
    /\ ret' = "hash_printed"
    /\ UNCHANGED <<ht, inserted, resizes, root, palavras, posicoes, keywords,
                   texto, calls, destroyed, value, copias>>

ImprimirIndiceTrie ==
    /\ ~Ended
    /\ \E zero_null \in BOOLEAN :
          saida' = imprimir_indice_trie(root, keywords, zero_null)
    /\ ret' = "trie_printed"
    /\ UNCHANGED <<ht, inserted, resizes, root, palavras, posicoes, keywords,
                   texto, calls, destroyed, value, copias>>

NextReport ==
    \/ CriarIndiceHash
    \/ CriarIndiceTrie
    \/ ImprimirIndiceHash
    \/ ImprimirIndiceTrie

SpecReport == InitBuild /\ [][NextReport]_vars

(* criar_indice_trie_texto on a raw text *)

TextBytes == {97, 65, 32}

InitTexto ==
    /\ ht = NULL
    /\ root = NULL
    /\ inserted = {}
    /\ resizes = 0
    /\ ret = "loaded"
    /\ palavras = <<>>
    /\ posicoes = <<>>
    /\ texto \in SeqsUpTo(TextBytes, MaxTextLen)
    /\ saida = NoReport
    /\ calls = <<>>
    /\ destroyed = 0
    /\ value = 0
    /\ copias = SemCopias
    /\ keywords \in SeqsUpTo(KeywordPool, MaxKeywords)

TextoDone(r) ==
    /\ root' = IF r.ret = 0 THEN root ELSE r.root
    /\ ret' = IF r.ret = 0 THEN "texto_0" ELSE "texto_built"
    /\ UNCHANGED <<ht, inserted, resizes, palavras, posicoes, keywords, texto, saida, calls, destroyed, value, copias>>

CriarIndiceTrieTexto == TextoDone(criar_indice_trie_texto(root, texto, keywords))

NextTexto == CriarIndiceTrieTexto

SpecTexto == InitTexto /\ [][NextTexto]_vars

(* trie_insert on words that hold a two-byte character with lead 0xC3 *)

LatinSecond == 128..191

AccentWords ==
    UNION {{<<195, c1>>, <<112, 195, c1>>, <<195, c1, 115>>} : c1 \in LatinSecond}

InitAccent ==
    /\ ht = NULL
    /\ root = (<<>> :> trie_create_node)
    /\ inserted = {}
    /\ resizes = 0
    /\ ret = "created"
    /\ palavras = <<>>
    /\ posicoes = <<>>
    /\ keywords = <<>>
    /\ texto = <<>>
    /\ saida = NoReport
    /\ calls = <<>>
    /\ destroyed = 0
    /\ value = 0
    /\ copias = SemCopias

TrieInsert(word, position) ==
    /\ Cardinality(inserted) < MaxTrieInserts
    /\ root' = trie_insert(root, word, position)
    /\ inserted' = inserted \cup {<<word, position>>}
    /\ ret' = "trie_insert"
    /\ UNCHANGED <<ht, resizes, palavras, posicoes, keywords, texto, saida, calls, destroyed, value, copias>>

NextAccent == \E w \in AccentWords : TrieInsert(w, 1)

SpecAccent == InitAccent /\ [][NextAccent]_vars

\* case machine: a word, its uppercase form and another word
CaseWords == {<<97>>, <<65>>, <<98>>}

CasePositions == {1, 2}

NextCase ==
    \/ \E w \in CaseWords, p \in CasePositions : HashInsert(w, p)
    \/ \E w \in CaseWords, p \in CasePositions, f \in {"resize", "strdup", "malloc"} :
          HashInsertAllocFail(w, p, f)

SpecCase == Init /\ [][NextCase]_vars

(* the trie as a state machine: a fresh root, then trie_insert calls; the  *)
(* k-th call inserts position k                                            *)

TrieWords == {<<99, 195, 169>>, <<67, 69>>, <<99>>, <<49>>}

InitTrie ==
    /\ ht = NULL
    /\ root = (<<>> :> trie_create_node)
    /\ inserted = {}
    /\ resizes = 0
    /\ ret = "created"
    /\ palavras = <<>>
    /\ posicoes = <<>>
    /\ keywords = <<>>
    /\ texto = <<>>
    /\ saida = NoReport
    /\ calls = <<>>
    /\ destroyed = 0
    /\ value = 0
    /\ copias = SemCopias

TrieInsertCall(word) ==
    /\ Len(calls) < MaxTrieCalls
    /\ root' = trie_insert(root, word, Len(calls) + 1)
    /\ calls' = Append(calls, [word |-> word, position |-> Len(calls) + 1,
                               fail |-> "none"])
    /\ ret' = "trie_insert"
    /\ UNCHANGED <<ht, inserted, resizes, palavras, posicoes, keywords, texto,
                   saida, destroyed, value, copias>>

TrieInsertAllocFail(word, fail) ==
    /\ Len(calls) < MaxTrieCalls
    /\ FailApplies(root, word, fail)
    /\ root' = trie_insert_failing(root, word, Len(calls) + 1, fail)
    /\ calls' = Append(calls, [word |-> word, position |-> Len(calls) + 1,
                               fail |-> fail])
    /\ ret' = "alloc_failed"
    /\ UNCHANGED <<ht, inserted, resizes, palavras, posicoes, keywords, texto,
                   saida, destroyed, value, copias>>

NextTrie ==
    \/ \E w \in TrieWords : TrieInsertCall(w)
    \/ \E w \in TrieWords, f \in {"strdup_utf8", "strdup_word"} :
          TrieInsertAllocFail(w, f)

SpecTrie == InitTrie /\ [][NextTrie]_vars

---------------------------------------------------------------------------
(* Rebuilding: inputs are loaded and replaced, and the indexes are built *)
(* again, by criar_indice_hash / criar_indice_trie on the handle that    *)
(* already holds an index, or by the menu, which frees the old one first *)

\* the input sets that can be loaded: an unsorted corpus, a corpus listing a
\* word twice with different positions, a keyword absent from the corpus,
\* keywords differing in case, an empty corpus
RebuildInputs ==
    { [palavras |-> <<<<98>>, <<97>>>>, posicoes |-> <<<<2>>, <<1>>>>,
       keywords |-> <<<<97>>, <<98>>>>],
      [palavras |-> <<<<97>>, <<97>>>>, posicoes |-> <<<<1>>, <<2>>>>,
       keywords |-> <<<<97>>>>],
      [palavras |-> <<<<97>>>>, posicoes |-> <<<<1, 2>>>>,
       keywords |-> <<<<98>>>>],
      [palavras |-> <<<<98>>>>, posicoes |-> <<<<1>>>>,
       keywords |-> <<<<65>>, <<98>>>>],
      [palavras |-> <<>>, posicoes |-> <<>>,
       keywords |-> <<<<97>>>>] }

InitRebuild ==
    /\ ht = NULL
    /\ root = NULL
    /\ inserted = {}
    /\ resizes = 0
    /\ ret = "loaded"
    /\ texto = <<>>
    /\ saida = NoReport
    /\ calls = <<>>
    /\ destroyed = 0
    /\ value = 0
    /\ copias = SemCopias
    /\ \E in \in RebuildInputs :
          /\ palavras = in.palavras
          /\ posicoes = in.posicoes
          /\ keywords = in.keywords

\* hash.c 226 / trie.c 400-403 / util.c 176-179 / util.c 195-198: an index is
\* destroyed when the handle holds one
Destroys(handle) == IF handle # NULL THEN 1 ELSE 0

\* main.c: carregar_texto and carregar_lista_keywords replace the inputs
CarregarEntradas ==
    /\ \E in \in RebuildInputs :
          /\ <<in.palavras, in.posicoes, in.keywords>> # <<palavras, posicoes, keywords>>
          /\ palavras' = in.palavras
          /\ posicoes' = in.posicoes
          /\ keywords' = in.keywords
    /\ ret' = "loaded"
    /\ UNCHANGED <<ht, inserted, resizes, root, texto, saida, calls, destroyed, value, copias>>

\* criar_indice_hash called on the handle as it is
ReconstruirHash ==
    /\ destroyed + Destroys(ht) <= MaxRebuilds
    /\ ht' = criar_indice_hash_on(ht, palavras, posicoes, keywords, "trap").ht
    /\ destroyed' = destroyed + Destroys(ht)
    /\ ret' = "hash_built"
    /\ UNCHANGED <<inserted, resizes, root, palavras, posicoes, keywords, texto, saida, calls, value, copias>>

\* criar_indice_trie called on the handle as it is; it sorts the caller's arrays
ReconstruirTrieWith(r) ==
    /\ root' = r.root
    /\ palavras' = r.palavras
    /\ posicoes' = r.posicoes
    /\ destroyed' = destroyed + Destroys(root)
    /\ ret' = "trie_built"
    /\ UNCHANGED <<ht, inserted, resizes, keywords, texto, saida, calls, value, copias>>

ReconstruirTrie ==
    /\ destroyed + Destroys(root) <= MaxRebuilds
    /\ ReconstruirTrieWith(criar_indice_trie_on(root, palavras, posicoes, keywords))

\* criar_indice_menu, options "hash" and "ambas": limpar_recursos_hash destroys the table
\* and clears the handle, the common arrays are copied, and criar_indice_hash
\* runs on the copies with the cleared handle
MenuHash(opcao) ==
    IF opcao \in {"hash", "ambas"}
    THEN [ht |-> criar_indice_hash_on(NULL, palavras, posicoes, keywords, "trap").ht,
          destroyed |-> Destroys(ht)]
    ELSE [ht |-> ht, destroyed |-> 0]

\* criar_indice_menu, options "trie" and "ambas": the same with limpar_recursos_trie and
\* criar_indice_trie, which sorts its own copies
MenuTrie(opcao) ==
    IF opcao \in {"trie", "ambas"}
    THEN [root |-> criar_indice_trie_on(NULL, palavras, posicoes, keywords).root,
          destroyed |-> Destroys(root)]
    ELSE [root |-> root, destroyed |-> 0]

CriarIndiceMenu ==
    \E opcao \in {"hash", "trie", "ambas"} :
        /\ destroyed + MenuHash(opcao).destroyed + MenuTrie(opcao).destroyed <= MaxRebuilds
        /\ ht' = MenuHash(opcao).ht
        /\ root' = MenuTrie(opcao).root
        /\ destroyed' = destroyed + MenuHash(opcao).destroyed + MenuTrie(opcao).destroyed
        /\ ret' = CASE opcao = "hash" -> "hash_built"
                    [] opcao = "trie" -> "trie_built"
                    [] OTHER -> "both_built"
        /\ UNCHANGED <<inserted, resizes, palavras, posicoes, keywords, texto, saida, calls, value, copias>>

NextRebuild ==
    \/ CarregarEntradas
    \/ ReconstruirHash
    \/ ReconstruirTrie
    \/ CriarIndiceMenu

SpecRebuild == InitRebuild /\ [][NextRebuild]_vars

(* tokenize_text on a raw text *)

\* 'a', 'A', a blank, a hyphen, and a byte above 127
TokenBytes == {97, 65, 32, 45, 195}

InitTokens ==
    /\ ht = NULL
    /\ root = NULL
    /\ inserted = {}
    /\ resizes = 0
    /\ ret = "none"
    /\ palavras = <<>>
    /\ posicoes = <<>>
    /\ keywords = <<>>
    /\ saida = NoReport
    /\ calls = <<>>
    /\ destroyed = 0
    /\ value = 0
    /\ copias = SemCopias
    /\ texto \in SeqsUpTo(TokenBytes, MaxTextLen)

Tokenized(tk) ==
    /\ palavras' = tk.words
    /\ posicoes' = tk.positions
    /\ ret' = "tokenized"
    /\ UNCHANGED <<ht, inserted, resizes, root, keywords, texto, saida, calls, destroyed, value, copias>>

TokenizeText ==
    /\ ret = "none"
    /\ Tokenized(tokenize_text(texto))

NextTokens == TokenizeText

SpecTokens == InitTokens /\ [][NextTokens]_vars

(* processar_texto on a raw text *)

\* 'a', 'A', 'b', a blank, a full stop
CorpusBytes == {97, 65, 98, 32, 46}

InitProcessar ==
    /\ ht = NULL
    /\ root = NULL
    /\ inserted = {}
    /\ resizes = 0
    /\ ret = "none"
    /\ palavras = <<>>
    /\ posicoes = <<>>
    /\ keywords = <<>>
    /\ saida = NoReport
    /\ calls = <<>>
    /\ destroyed = 0
    /\ value = 0
    /\ copias = SemCopias
    /\ texto \in SeqsUpTo(CorpusBytes, MaxTextLen)

Processed(r) ==
    /\ palavras' = r.words
    /\ posicoes' = r.positions
    /\ ret' = "processed"
    /\ UNCHANGED <<ht, inserted, resizes, root, keywords, texto, saida, calls, destroyed, value, copias>>

ProcessarTexto ==
    /\ ret = "none"
    /\ Processed(processar_texto(texto))

NextProcessar == ProcessarTexto

SpecProcessar == InitProcessar /\ [][NextProcessar]_vars

(* Lookup: the same words go into a hash table and into a trie, and words *)
(* that were and were not inserted are looked up in both                  *)

\* "a", "ab", "abc", "AB", "a-": each a prefix or an extension of another
LookupWords == {<<97>>, <<97, 98>>, <<97, 98, 99>>, <<65, 66>>, <<97, 45>>}

\* the words looked up: the above, and "b", "a1", "abcd", "ac", "-"
ProbeWords ==
    LookupWords \cup {<<98>>, <<97, 49>>, <<97, 98, 99, 100>>, <<97, 99>>, <<45>>}

InitLookup ==
    /\ ht \in {hash_create(1), hash_create(3)}
    /\ root = (<<>> :> trie_create_node)
    /\ inserted = {}
    /\ resizes = 0
    /\ ret = "created"
    /\ palavras = <<>>
    /\ posicoes = <<>>
    /\ keywords = <<>>
    /\ texto = <<>>
    /\ saida = NoReport
    /\ calls = <<>>
    /\ destroyed = 0
    /\ value = 0
    /\ copias = SemCopias

\* hash_insert and trie_insert of the same word at the next position
InsertBoth(word) ==
    /\ Len(calls) < MaxLookups
    /\ ht' = hash_insert(ht, word, Len(calls) + 1, "none").ht
    /\ root' = trie_insert(root, word, Len(calls) + 1)
    /\ calls' = Append(calls, [word |-> word, position |-> Len(calls) + 1, fail |-> "none"])
    /\ ret' = "inserted"
    /\ UNCHANGED <<inserted, resizes, palavras, posicoes, keywords, texto, saida, destroyed, value, copias>>

NextLookup == \E w \in LookupWords : InsertBoth(w)

SpecLookup == InitLookup /\ [][NextLookup]_vars

(* hash_function on a word and a table size *)

\* 'a', 'A', 'z', 'Z', and the two bytes of "é"
HashBytes == {97, 65, 122, 90, 195, 169}

HashSizes == {1, 2, 7, 1023}

InitHashFn ==
    /\ ht \in {hash_create(size) : size \in HashSizes}
    /\ root = NULL
    /\ inserted = {}
    /\ resizes = 0
    /\ ret = "none"
    /\ palavras = <<>>
    /\ posicoes = <<>>
    /\ keywords = <<>>
    /\ saida = NoReport
    /\ calls = <<>>
    /\ destroyed = 0
    /\ value = 0
    /\ copias = SemCopias
    /\ texto \in SeqsUpTo(HashBytes, MaxHashLen)

\* hash_function(texto, ht->size), in a build with plain char signed or unsigned
HashFunction ==
    /\ ret = "none"
    /\ \E char_signed \in BOOLEAN :
          value' = hash_function_on(texto, ht.size, char_signed)
    /\ ret' = "hashed"
    /\ UNCHANGED <<ht, inserted, resizes, root, palavras, posicoes, keywords, texto, saida, calls, destroyed, copias>>

NextHashFn == HashFunction

SpecHashFn == InitHashFn /\ [][NextHashFn]_vars

(* sort_palavras_com_posicoes and criar_indice_hash on corpus arrays *)

\* "a", "A", "b", "B"
SortWords == {<<97>>, <<65>>, <<98>>, <<66>>}

\* entry i carries the position list <<i>>, so that every pair is distinct
InitSort ==
    /\ ht = NULL
    /\ root = NULL
    /\ inserted = {}
    /\ resizes = 0
    /\ ret = "loaded"
    /\ texto = <<>>
    /\ saida = NoReport
    /\ calls = <<>>
    /\ destroyed = 0
    /\ value = 0
    /\ copias = SemCopias
    /\ keywords = <<<<97>>>>
    /\ palavras \in SeqsUpTo(SortWords, MaxSort)
    /\ posicoes = [i \in DOMAIN palavras |-> <<i>>]

Sorted(temp) ==
    /\ palavras' = [k \in DOMAIN temp |-> temp[k].palavra]
    /\ posicoes' = [k \in DOMAIN temp |-> temp[k].posicoes]
    /\ ret' = "sorted"
    /\ UNCHANGED <<ht, inserted, resizes, root, keywords, texto, saida, calls, destroyed, value, copias>>

SortPalavras ==
    /\ ret = "loaded"
    /\ Sorted(sort_palavras_com_posicoes(palavras, posicoes))

\* trie.c 364-368: malloc of the temporary array returns NULL, a message is
\* printed and the arrays stay as they are
SortAllocFail ==
    /\ ret = "loaded"
    /\ ret' = "alloc_failed"
    /\ UNCHANGED <<ht, inserted, resizes, root, palavras, posicoes, keywords, texto, saida, calls, destroyed, value, copias>>

\* criar_indice_hash reads the arrays
HashOverArrays ==
    /\ ret \in {"loaded", "sorted"}
    /\ ht' = criar_indice_hash_on(ht, palavras, posicoes, keywords, "trap").ht
    /\ ret' = "hash_built"
    /\ UNCHANGED <<inserted, resizes, root, palavras, posicoes, keywords, texto, saida, calls, destroyed, value, copias>>

\* "a", "A", "b", "B" and "c", which is in no array
SearchWords == SortWords \cup {<<99>>}

\* binary_search_word on the arrays as they are, sorted or not
BinarySearchWord ==
    /\ ret \in {"loaded", "sorted", "alloc_failed"}
    /\ \E w \in SearchWords :
          /\ texto' = w
          /\ value' = binary_search_word(palavras, w)
    /\ ret' = "searched"
    /\ UNCHANGED <<ht, inserted, resizes, root, palavras, posicoes, keywords, saida, calls, destroyed, copias>>

NextSort ==
    \/ SortPalavras
    \/ SortAllocFail
    \/ HashOverArrays
    \/ BinarySearchWord

SpecSort == InitSort /\ [][NextSort]_vars

(* The read cursor of trie_insert and trie_search *)

\* "c", "cé", "é", and words that end in a lead byte without its
\* continuation bytes: "\xC3", "c\xC3", "\xE2"
CursorWords ==
    {<<99>>, <<99, 195, 169>>, <<195, 169>>, <<195>>, <<99, 195>>, <<226>>}

\* what follows ptr in memory once it has stepped over the NUL: a zero byte,
\* or a 'c' and then a zero byte
BeyondBytes == {<<>>, <<99>>}

InitCursor ==
    /\ ht = NULL
    /\ root = (<<>> :> trie_create_node)
    /\ inserted = {}
    /\ resizes = 0
    /\ ret = "created"
    /\ palavras = <<>>
    /\ posicoes = <<>>
    /\ keywords = <<>>
    /\ texto = <<>>
    /\ saida = NoReport
    /\ calls = <<>>
    /\ destroyed = 0
    /\ value = 0
    /\ copias = SemCopias

\* texto is the word of the call, value the offset its cursor reached
Walked(word, cursor, outcome) ==
    /\ texto' = word
    /\ value' = cursor
    /\ ret' = outcome
    /\ UNCHANGED <<ht, inserted, resizes, palavras, posicoes, keywords, saida, destroyed, copias>>

\* trie_insert of a word whose walk ends on its NUL
InsertWalk(word) ==
    /\ Len(calls) < MaxCursorCalls
    /\ InsertCursor(word, 1) = Len(word) + 1
    /\ root' = trie_insert(root, word, Len(calls) + 1)
    /\ calls' = Append(calls, [word |-> word, position |-> Len(calls) + 1, fail |-> "none"])
    /\ Walked(word, InsertCursor(word, 1), "inserted")

\* trie_insert of a word whose walk steps over its NUL.  Reading there is
\* undefined: the read faults, or the loop goes on over the bytes it finds
InsertOverrun(word) ==
    /\ Len(calls) < MaxCursorCalls
    /\ InsertCursor(word, 1) > Len(word) + 1
    /\ calls' = Append(calls, [word |-> word, position |-> Len(calls) + 1, fail |-> "none"])
    /\ \/ /\ root' = root
          /\ Walked(word, InsertCursor(word, 1), "crash")
       \/ \E beyond \in BeyondBytes :
             /\ root' = trie_insert_beyond(root, word, Len(calls) + 1, beyond)
             /\ Walked(word, InsertCursor(word, 1), "inserted")

\* trie_search; only the cursor is kept
SearchWalk(word) ==
    /\ ret # "crash"
    /\ UNCHANGED <<root, calls, copias>>
    /\ \/ /\ SearchCursor(root, word, 1, <<>>) <= Len(word) + 1
          /\ Walked(word, SearchCursor(root, word, 1, <<>>), "searched")
       \/ /\ SearchCursor(root, word, 1, <<>>) > Len(word) + 1
          /\ \E outcome \in {"searched", "crash"} :
                Walked(word, SearchCursor(root, word, 1, <<>>), outcome)

NextCursor ==
    \/ \E w \in CursorWords : InsertWalk(w)
    \/ \E w \in CursorWords : InsertOverrun(w)
    \/ \E w \in CursorWords : SearchWalk(w)

SpecCursor == InitCursor /\ [][NextCursor]_vars

---------------------------------------------------------------------------
(* The menu of main.c: a text and a keyword list are loaded and replaced, *)
(* and the indexes are created, printed and deleted in any order.  Here   *)
(* texto is texto_comum, palavras and posicoes are palavras_comum and     *)
(* posicoes_comum, and keywords is keywords_comum; saida is the index     *)
(* report of the last operation, NoReport when it printed none; the       *)
(* history variable destroyed is not kept by this machine                 *)

\* the files a user can load: each holds at least one word (carregar_texto
\* asks again until processar_texto finds one)
MenuTexts == { <<97>>, <<98, 32, 65>> }

\* the lists a user can load: each holds at least one keyword
\* (carregar_lista_keywords asks again until one is read)
MenuKeywords == { <<<<97>>>>, <<<<98>>, <<99>>>> }

\* what the user can type at a "hash/trie/ambas" prompt
MenuOpcoes == {"hash", "trie", "ambas", "outra"}

InitMenu ==
    /\ ht = NULL
    /\ root = NULL
    /\ inserted = {}
    /\ resizes = 0
    /\ ret = "menu"
    /\ palavras = <<>>
    /\ posicoes = <<>>
    /\ keywords = <<>>
    /\ texto = <<>>
    /\ saida = NoReport
    /\ calls = <<>>
    /\ destroyed = 0
    /\ value = 0
    /\ copias = SemCopias

\* main.c 153, 186: texto_carregado is 1 exactly while num_palavras_comum > 0
texto_carregado == palavras # <<>>

\* main.c 212, 251: keywords_carregadas is 1 exactly once num_keywords_comum > 0
keywords_carregadas == keywords # <<>>

CriarPermitido_SoTexto(tc, kc) == tc

\* main.c 263-271: criar_indice_menu returns before asking for the structure
\* unless a text and a keyword list are loaded
CriarPermitido(tc, kc) == tc /\ kc

\* excluir_indice_menu: the chosen index is destroyed and its handle cleared;
\* "ambas" also runs limpar_recursos, which zeroes both keyword counts
Excluido(opcao) ==
    [ht |-> IF opcao \in {"hash", "ambas"} THEN NULL ELSE ht,
     root |-> IF opcao \in {"trie", "ambas"} THEN NULL ELSE root,
     copias |-> IF opcao = "ambas"
                THEN [copias EXCEPT !.keywords_hash = <<>>, !.keywords_trie = <<>>]
                ELSE copias]

Mantido == [ht |-> ht, root |-> root, copias |-> copias]

\* carregar_texto, lines 159-168: the question is asked only when an index
\* exists; the answer 's' runs excluir_indice_menu, any other keeps the indexes
AposPergunta(resposta, opcao) ==
    IF (ht # NULL \/ root # NULL) /\ resposta = "s" THEN Excluido(opcao) ELSE Mantido

RespostaDe(resposta, opcao) ==
    IF ht = NULL /\ root = NULL THEN "texto"
    ELSE IF resposta # "s" THEN "texto_manter"
    ELSE CASE opcao = "hash" -> "texto_excluir_hash"
           [] opcao = "trie" -> "texto_excluir_trie"
           [] opcao = "ambas" -> "texto_excluir_ambas"
           [] OTHER -> "texto_excluir_outra"

CarregarTexto ==
    \E t \in MenuTexts, resposta \in {"s", "n"}, opcao \in MenuOpcoes :
        /\ ht' = AposPergunta(resposta, opcao).ht
        /\ root' = AposPergunta(resposta, opcao).root
        /\ copias' = AposPergunta(resposta, opcao).copias
        /\ texto' = t
        /\ palavras' = processar_texto(t).words
        /\ posicoes' = processar_texto(t).positions
        /\ ret' = RespostaDe(resposta, opcao)
        /\ saida' = NoReport
        /\ UNCHANGED <<inserted, resizes, keywords, calls, destroyed, value>>

CarregarListaKeywords ==
    \E k \in MenuKeywords :
        /\ keywords' = k
        /\ ret' = "keywords"
        /\ saida' = NoReport
        /\ UNCHANGED <<ht, inserted, resizes, root, palavras, posicoes, texto,
                       calls, destroyed, value, copias>>

\* criar_indice_menu, lines 278-296 and 312-330: the common text and the
\* common keywords are copied into the globals of each structure built
CopiasDe(opcao) ==
    [texto_hash |-> IF opcao \in {"hash", "ambas"} THEN texto ELSE copias.texto_hash,
     keywords_hash |-> IF opcao \in {"hash", "ambas"} THEN keywords
                       ELSE copias.keywords_hash,
     texto_trie |-> IF opcao \in {"trie", "ambas"} THEN texto ELSE copias.texto_trie,
     keywords_trie |-> IF opcao \in {"trie", "ambas"} THEN keywords
                       ELSE copias.keywords_trie]

CriarIndice ==
    /\ CriarPermitido(texto_carregado, keywords_carregadas)
    /\ \E opcao \in MenuOpcoes :
          /\ ht' = MenuHash(opcao).ht
          /\ root' = MenuTrie(opcao).root
          /\ copias' = CopiasDe(opcao)
          /\ ret' = CASE opcao = "hash" -> "hash_built"
                      [] opcao = "trie" -> "trie_built"
                      [] opcao = "ambas" -> "both_built"
                      [] OTHER -> "invalid_option"
    /\ saida' = NoReport
    /\ UNCHANGED <<inserted, resizes, palavras, posicoes, keywords, texto,
                   calls, destroyed, value>>

\* criar_indice_menu, lines 263-271: nothing is loaded, nothing is built
CriarIndiceRecusado ==
    /\ ~CriarPermitido(texto_carregado, keywords_carregadas)
    /\ ret' = "not_loaded"
    /\ saida' = NoReport
    /\ UNCHANGED <<ht, inserted, resizes, root, palavras, posicoes, keywords, texto,
                   calls, destroyed, value, copias>>

\* imprimir_indice_menu: each printer reads the keywords copied for its own
\* structure (hash.c 277-278, trie.c get_keywords_trie)
ImprimirIndice ==
    \E opcao \in MenuOpcoes, zero_null \in BOOLEAN :
        /\ saida' =
             [hash |-> IF opcao \in {"hash", "ambas"}
                       THEN imprimir_indice_hash(ht, copias.keywords_hash, zero_null)
                       ELSE NoReport,
              trie |-> IF opcao \in {"trie", "ambas"}
                       THEN imprimir_indice_trie(root, copias.keywords_trie, zero_null)
                       ELSE NoReport]
        /\ ret' = "printed"
        /\ UNCHANGED <<ht, inserted, resizes, root, palavras, posicoes, keywords, texto,
                       calls, destroyed, value, copias>>

ExcluirIndice ==
    \E opcao \in MenuOpcoes :
        /\ ht' = Excluido(opcao).ht
        /\ root' = Excluido(opcao).root
        /\ copias' = Excluido(opcao).copias
        /\ ret' = "deleted"
        /\ saida' = NoReport
        /\ UNCHANGED <<inserted, resizes, palavras, posicoes, keywords, texto,
                       calls, destroyed, value>>

NextMenu ==
    \/ CarregarTexto
    \/ CarregarListaKeywords
    \/ CriarIndice
    \/ CriarIndiceRecusado
    \/ ImprimirIndice
    \/ ExcluirIndice

SpecMenu == InitMenu /\ [][NextMenu]_vars

(* Claims about the hash table *)

Retrievable(h, word, position) ==
    LET r == hash_search(h, word)
    IN  r.found /\ CountOf(r.occurrences, position) = 1

\* C1: after any sequence of hash_insert calls, also across three or more
\* resizes, hash_search finds every inserted (word, position) with the
\* position exactly once, and entries is the number of case-insensitively
\* distinct words inserted.
C1_InsertedRetrievable ==
    /\ \A pr \in inserted : Retrievable(ht, pr[1], pr[2])
    /\ ht.entries = Cardinality({LowerStr(pr[1]) : pr \in inserted})

C1_Witness ==
    /\ resizes >= 3
    /\ <<GrowPool[1], 1>> \in inserted
    /\ <<GrowPool[2], 1>> \in inserted
    /\ ht.entries >= 5
    /\ ret = "duplicate"

\* C2: in every reachable table the occurrence list of every occupied slot
\* is strictly ascending, hence holds no position twice.
C2_OccurrencesAscending ==
    \A i \in DOMAIN ht.table : StrictlyAscending(ht.table[i].occurrences)

C2_Witness ==
    /\ ret = "inserted_before"
    /\ \E i \in DOMAIN ht.table : Len(ht.table[i].occurrences) >= 3
    /\ \E pr \in inserted : strcasecmp(pr[1], OccPool[1]) # 0

\* C7 as stated: after every hash_insert, entries / size <= 0.7.
C7_LoadFactorAfterInsert ==
    ret # "created" => 10 * ht.entries <= 7 * ht.size

\* C7 as amended: the load factor is tested before the insertion, so after a
\* hash_insert the table exceeds 0.7 by at most the one entry just added:
\* (entries - 1) / size <= 0.7.
C7_LoadFactorBeforeInsert ==
    10 * (ht.entries - 1) <= 7 * ht.size

C7_Witness ==
    /\ ret = "inserted"
    /\ resizes >= 1
    /\ 10 * ht.entries > 7 * ht.size

\* C8: whenever hash_resize fails, the table is exactly as before the call
\* (size, entries, slots), every stored word is still found with its list,
\* and the insertion that asked for the resize is skipped.
C8_FailedResizeLeavesTable ==
    [][ret' = "resize_failed" =>
          /\ ht' = ht
          /\ \A i \in DOMAIN ht.table :
                hash_search(ht', ht.table[i].word) =
                    [found |-> TRUE, occurrences |-> ht.table[i].occurrences]]_vars

C8_Witness ==
    /\ ret = "resize_failed"
    /\ ht.entries >= 3
    /\ resizes >= 1

---------------------------------------------------------------------------
(* Claims about the builders and the trie *)

\* C3: after criar_indice_trie on corpus arrays with ascending, duplicate-free
\* position lists and any keyword list, the occurrence list of every
\* end-of-word node is strictly ascending and holds no position twice.
C3_TrieOccurrencesAscending ==
    root # NULL =>
        \A p \in DOMAIN root :
            root[p].is_end_of_word => StrictlyAscending(root[p].occurrences)

\* C4: once criar_indice_hash and criar_indice_trie have both run on the same
\* input, hash_search and trie_search give every keyword the same answer:
\* both not found, or the same sequence of positions.
C4_EnginesAgree ==
    (ht # NULL /\ root # NULL /\ ~Ended) =>
        \A i \in DOMAIN keywords :
            hash_search(ht, keywords[i]) = trie_search(root, keywords[i])

IsKeyword(w) == \E i \in DOMAIN keywords : strcasecmp(keywords[i], w) = 0

CorpusPositions(w) ==
    UNION {Range(posicoes[j]) : j \in {k \in DOMAIN palavras : strcasecmp(palavras[k], w) = 0}}

InCorpus(w) == \E j \in DOMAIN palavras : strcasecmp(palavras[j], w) = 0

\* C5: after criar_indice_hash the main index holds an entry for a word w if
\* and only if w equals, ignoring case, some keyword and some corpus word, and
\* the list of that entry is the ascending duplicate-free union of the
\* positions of all corpus entries equal to w.
C5_HashIndexIsKeywordFilter ==
    (ht # NULL /\ ~Ended) =>
        /\ \A w \in CorpusWords \cup KeywordPool :
              hash_search(ht, w) =
                  IF IsKeyword(w) /\ InCorpus(w)
                  THEN [found |-> TRUE, occurrences |-> SortedSeq(CorpusPositions(w))]
                  ELSE NotFound
        /\ \A i \in DOMAIN ht.table :
              /\ IsKeyword(ht.table[i].word) /\ InCorpus(ht.table[i].word)
              /\ ht.table[i].occurrences = SortedSeq(CorpusPositions(ht.table[i].word))
              /\ \A j \in DOMAIN ht.table :
                    strcasecmp(ht.table[i].word, ht.table[j].word) = 0 => i = j
        /\ ht.entries = Cardinality(DOMAIN ht.table)

C5_Witness ==
    /\ ret = "hash_built"
    /\ \E i \in DOMAIN ht.table : ht.table[i].occurrences = <<1, 2>>
    /\ \E j \in DOMAIN palavras, k \in DOMAIN palavras :
          /\ palavras[j] = palavras[k]
          /\ posicoes[j] = <<2>>
          /\ posicoes[k] = <<1>>
          /\ j < k
    /\ \E i \in DOMAIN keywords : ~hash_search(ht, keywords[i]).found
    /\ \E i \in DOMAIN keywords :
          keywords[i] \notin Range(palavras) /\ hash_search(ht, keywords[i]).found

\* the 1-based token positions at which a keyword occurs in a text
TokenPositions(text, kw) ==
    SortedSeq({p \in DOMAIN TokenizeFrom(text, 1, <<>>) :
                  strcasecmp(TokenizeFrom(text, 1, <<>>)[p], kw) = 0})

\* C6: after criar_indice_trie_texto, trie_search of a keyword that occurs in
\* the text returns the ascending list of all token positions at which it
\* occurs, and a keyword that never occurs is not found.
C6_TextoAllPositions ==
    ret # "loaded" =>
        \A i \in DOMAIN keywords :
            trie_search(root, keywords[i]) =
                IF TokenPositions(texto, keywords[i]) = <<>> THEN NotFound
                ELSE [found |-> TRUE,
                      occurrences |-> TokenPositions(texto, keywords[i])]

\* the base letter the claim gives to the second byte of a two-byte character
\* with lead 0xC3 (lowercase forms 0xA0.., uppercase forms 0x80..); 0 for the
\* characters the claim does not list
ClaimedBase(c1) ==
    LET low == IF c1 < 160 THEN c1 + 32 ELSE c1
    IN  CASE low \in 160..165 -> 97
          [] low = 167 -> 99
          [] low \in 168..171 -> 101
          [] low \in 172..175 -> 105
          [] low = 177 -> 110
          [] low \in {178, 179, 180, 181, 182} -> 111
          [] low \in 185..188 -> 117
          [] OTHER -> 0

RECURSIVE Unaccented(_, _)
Unaccented(word, i) ==
    IF i > Len(word) THEN <<>>
    ELSE IF word[i] = 195 /\ i < Len(word) /\ ClaimedBase(word[i + 1]) # 0
    THEN <<ClaimedBase(word[i + 1])>> \o Unaccented(word, i + 2)
    ELSE <<tolower(word[i])>> \o Unaccented(word, i + 1)

HasListedAccent(word) ==
    \E i \in 1..(Len(word) - 1) : word[i] = 195 /\ ClaimedBase(word[i + 1]) # 0

\* C9: a word holding any of the listed accented letters is inserted on the
\* path of its unaccented lowercase spelling and is found by searching that
\* spelling.
C9_AccentsFoldToBase ==
    \A pr \in inserted :
        HasListedAccent(pr[1]) =>
            /\ TriePath(pr[1]) = TriePath(Unaccented(pr[1], 1))
            /\ trie_search(root, Unaccented(pr[1], 1)).found

\* C10: criar_indice_hash and criar_indice_trie on an empty keyword list or an
\* empty corpus return normally and leave an index without entries.
C10_EmptyInputsBuildEmpty ==
    ((keywords = <<>> \/ palavras = <<>>) /\ ret # "loaded") =>
        /\ ~Ended
        /\ ht # NULL => (ht.entries = 0 /\ DOMAIN ht.table = {})
        /\ root # NULL => DOMAIN root = {<<>>}

---------------------------------------------------------------------------
(* Claims of the second group *)

\* C11: a reporter prints a keyword as not found in the text if and only if
\* the keyword matches no corpus word; a keyword that occurs in the text, also
\* one listed twice, is never printed as not found.
C11_NotFoundIffAbsent ==
    saida.status = "printed" =>
        \A i \in DOMAIN keywords :
            (keywords[i] \in Range(saida.not_found)) <=> ~InCorpus(keywords[i])

\* C12: words equal ignoring ASCII case share one entry: hash_search of either
\* spelling returns the same list, which holds the positions inserted under
\* any of the spellings, and inserting under another spelling neither creates
\* a second entry nor increases entries.
C12_CaseInsensitive ==
    /\ \A pr \in inserted : \A w \in CaseWords :
          strcasecmp(w, pr[1]) = 0 =>
              /\ hash_search(ht, w) = hash_search(ht, pr[1])
              /\ hash_search(ht, w).found
              /\ Range(hash_search(ht, w).occurrences) =
                    {q[2] : q \in {x \in inserted : strcasecmp(x[1], w) = 0}}
    /\ ht.entries = Cardinality({LowerStr(pr[1]) : pr \in inserted})
    /\ \A i \in DOMAIN ht.table, j \in DOMAIN ht.table :
          strcasecmp(ht.table[i].word, ht.table[j].word) = 0 => i = j

C12_Witness ==
    /\ <<(<<97>>), 1>> \in inserted
    /\ <<(<<65>>), 2>> \in inserted
    /\ \A pr \in inserted : strcasecmp(pr[1], <<97>>) = 0
    /\ hash_search(ht, <<65>>).occurrences = <<1, 2>>
    /\ ht.entries = 1

\* the capacity the table was created with: every resize maps size to
\* 2 * size + 1
InitialSize == ((ht.size + 1) \div (2 ^ resizes)) - 1

DistinctInserted == Cardinality({LowerStr(pr[1]) : pr \in inserted})

\* C16: a table created by hash_create(3) takes three distinct words: no call
\* reports a full table, and after the third word is inserted the table still
\* has capacity 3, entries is 3 and the three words are retrievable.
C16_CapacityThreeTakesThree ==
    /\ ret # "full"
    /\ (InitialSize = 3 /\ DistinctInserted = 3 /\ ret = "inserted") =>
          /\ ht.size = 3
          /\ ht.entries = 3
          /\ \A pr \in inserted : Retrievable(ht, pr[1], pr[2])

C16_Witness ==
    /\ InitialSize = 3
    /\ resizes = 0
    /\ DistinctInserted = 3
    /\ ret = "inserted"
    /\ ht.entries = 3

\* C20 as stated: a hash_insert that finds the position already recorded
\* leaves the whole table unchanged: size, entries and every slot.
C20_DuplicateLeavesTable ==
    [][ret' = "duplicate" => ht' = ht]_vars

\* C20 as amended: such a call leaves entries and every word with its list
\* unchanged; the table itself is unchanged unless the load test that precedes
\* the probe resized it to 2 * size + 1.
C20_DuplicateKeepsContent ==
    [][ret' = "duplicate" =>
          /\ ht'.entries = ht.entries
          /\ HashEntries(ht') = HashEntries(ht)
          /\ ht'.size = ht.size => ht' = ht
          /\ ht'.size # ht.size =>
                (LoadExceeded(ht.entries, ht.size) /\ ht'.size = (2 * ht.size) + 1)]_vars

C20_Witness ==
    /\ ret = "duplicate"
    /\ ht.entries >= 2
    /\ \E i \in DOMAIN ht.table : Len(ht.table[i].occurrences) >= 2
    /\ resizes >= 1

\* the calls that completed and walked the path p, in order
CompletedOn(p) ==
    SelectSeq(calls, LAMBDA c : c.fail = "none" /\ TriePath(c.word) = p)

\* C13: words with the same normalized path share one node: trie_search of
\* any of them returns the occurrence list of that node, which holds the
\* positions of all of them in insertion order, and the node's original_word
\* is the surface form of the first insertion and is never replaced.
C13_TrieFolding ==
    \A i \in DOMAIN calls :
        (calls[i].fail = "none" /\ TriePath(calls[i].word) # <<>>) =>
            /\ trie_search(root, calls[i].word) =
                  [found |-> TRUE,
                   occurrences |-> root[TriePath(calls[i].word)].occurrences]
            /\ root[TriePath(calls[i].word)].occurrences =
                  [k \in DOMAIN CompletedOn(TriePath(calls[i].word)) |->
                      CompletedOn(TriePath(calls[i].word))[k].position]
            /\ root[TriePath(calls[i].word)].original_word =
                  CompletedOn(TriePath(calls[i].word))[1].word

C13_Witness ==
    /\ Len(calls) >= 2
    /\ calls[1] = [word |-> <<99, 195, 169>>, position |-> 1, fail |-> "none"]
    /\ calls[2] = [word |-> <<67, 69>>, position |-> 2, fail |-> "none"]
    /\ trie_search(root, <<99, 101>>).occurrences = <<1, 2>>
    /\ root[<<2, 4>>].original_word = <<99, 195, 169>>

\* C17: in every reachable trie a node has original_word set if and only if
\* it is marked end-of-word, the root is never marked, and a trie_insert
\* of a word whose characters are all rejected leaves the trie unchanged.
C17_OriginalWordIffEnd ==
    /\ [](\A p \in DOMAIN root :
            (root[p].original_word # <<>>) <=> root[p].is_end_of_word)
    /\ [](~root[<<>>].is_end_of_word)
    /\ [][(calls' # calls /\ TriePath(calls'[Len(calls')].word) = <<>>)
              => root' = root]_vars


\* C14: when criar_indice_hash runs twice in a row, or criar_indice_trie runs
\* twice in a row, on the same handle and the same inputs (the second call
\* gets the arrays as the first left them), the enumeration of the index, the
\* set of words each with its position list, is the same after both calls.
C14_BuildIdempotent ==
    [][/\ (ret = "hash_built" /\ ret' = "hash_built")
             => HashEntries(ht') = HashEntries(ht)
       /\ (ret = "trie_built" /\ ret' = "trie_built")
             => trie_get_all_words(root') = trie_get_all_words(root)]_vars

\* only the trie was ever built, it was rebuilt at least once, and the corpus
\* lists the indexed word twice, so that the result depends on the sort
C14_Witness ==
    /\ ht = NULL
    /\ destroyed >= 1
    /\ ret = "trie_built"
    /\ Len(palavras) = 2 /\ palavras[1] = palavras[2] /\ posicoes[1] # posicoes[2]
    /\ trie_get_all_words(root) # {}

HashRebuilt == ret' \in {"hash_built", "both_built"}

TrieRebuilt == ret' \in {"trie_built", "both_built"}

\* C15: a build on a handle that already holds an index gives exactly the
\* index a build of the same inputs on a NULL handle gives, every word and
\* position in it comes from the inputs of this build, and the index the
\* handle held is destroyed exactly once (and nothing is destroyed otherwise).
C15_RebuildIsFresh ==
    [][/\ HashRebuilt =>
             /\ ht' = criar_indice_hash(palavras, posicoes, keywords, "trap").ht
             /\ \A e \in HashEntries(ht') :
                   /\ IsKeyword(e.word) /\ InCorpus(e.word)
                   /\ Range(e.positions) \subseteq CorpusPositions(e.word)
       /\ TrieRebuilt =>
             /\ root' = criar_indice_trie(palavras, posicoes, keywords).root
             /\ \A e \in trie_get_all_words(root') :
                   /\ IsKeyword(e.word) /\ InCorpus(e.word)
                   /\ Range(e.positions) \subseteq CorpusPositions(e.word)
       /\ destroyed' = destroyed
                         + (IF HashRebuilt /\ ht # NULL THEN 1 ELSE 0)
                         + (IF TrieRebuilt /\ root # NULL THEN 1 ELSE 0)]_vars

\* both indexes were rebuilt, and the inputs now loaded give an empty index
\* of each kind: whatever the earlier builds had indexed is gone
C15_Witness ==
    /\ destroyed >= 2
    /\ ret \in {"hash_built", "trie_built", "both_built"}
    /\ ht # NULL /\ root # NULL
    /\ keywords = <<<<98>>>> /\ palavras = <<<<97>>>>
    /\ HashEntries(ht) = {} /\ trie_get_all_words(root) = {}

\* the maximal runs of word characters of texto, as <<first, last>>
WordRuns ==
    {r \in (DOMAIN texto) \X (DOMAIN texto) :
        /\ r[1] <= r[2]
        /\ \A k \in r[1]..r[2] : IsWordChar(texto[k])
        /\ r[1] = 1 \/ ~IsWordChar(texto[r[1] - 1])
        /\ r[2] = Len(texto) \/ ~IsWordChar(texto[r[2] + 1])}

\* the i-th run in text order
RunAt(i) ==
    CHOOSE r \in WordRuns : Cardinality({q \in WordRuns : q[1] < r[1]}) = i - 1

\* C18: tokenize_text gives one token per maximal run of word characters
\* (alphanumeric, hyphen, byte above 127), in text order, each lowercased,
\* the i-th with the single position i; a text without word characters
\* gives no token.
C18_TokenizeText ==
    ret = "tokenized" =>
        /\ Len(palavras) = Cardinality(WordRuns)
        /\ Len(posicoes) = Len(palavras)
        /\ \A i \in DOMAIN palavras :
              /\ palavras[i] = LowerStr(SubSeq(texto, RunAt(i)[1], RunAt(i)[2]))
              /\ posicoes[i] = <<i>>

\* C19: processar_texto gives every token i of the corpus the ascending list
\* of the 1-based positions of all tokens whose lowercased word equals that of
\* token i, so that the list of token i contains i.
C19_OneBasedPositions ==
    ret = "processed" =>
        \A i \in DOMAIN palavras :
            /\ posicoes[i] = SortedSeq({j \in DOMAIN palavras : palavras[j] = palavras[i]})
            /\ i \in Range(posicoes[i])

(* Claims of the third group *)

InsertedWords == {calls[k].word : k \in DOMAIN calls}

IsProperPrefix(a, b) == Len(a) < Len(b) /\ SubSeq(b, 1, Len(a)) = a

RefXor(h, b) ==
    [hi |-> h.hi, lo |-> (h.lo - (h.lo % 256)) + XorBits(h.lo % 256, tolower(b), 8)]

RefMul(x) ==
    [hi |-> (x.hi * 403 + (x.lo % 256) * 256 + ((x.lo * 403) \div 65536)) % 65536,
     lo |-> (x.lo * 403) % 65536]

RECURSIVE RefFnv(_, _, _)
RefFnv(h, word, i) ==
    IF i > Len(word) THEN h ELSE RefFnv(RefMul(RefXor(h, word[i])), word, i + 1)

\* the 32-bit value modulo size, by repeated doubling
RECURSIVE RefMod(_, _, _)
RefMod(x, n, size) ==
    IF n = 0 THEN 0
    ELSE (2 * RefMod(x \div 2, n - 1, size) + (x % 2)) % size

RefHash(word, size) ==
    LET h == RefFnv([hi |-> 33052, lo |-> 40389], word, 1)
    IN  (RefMod(h.hi, 16, size) * (65536 % size) + RefMod(h.lo, 16, size)) % size

\* C22: hash_function(word, size) is the 32-bit FNV-1a value of the
\* lowercased bytes of word modulo size; it lies in 0..size-1, and it is the
\* same for two words that differ in the case of ASCII letters only.
C22_HashIsFnv1a ==
    ret = "hashed" =>
        /\ value = RefHash(texto, ht.size)
        /\ value >= 0 /\ value < ht.size
        /\ \A char_signed \in BOOLEAN :
              hash_function_on(LowerStr(texto), ht.size, char_signed)
                  = hash_function_on(texto, ht.size, char_signed)

PermutationsOf(n) ==
    {f \in [1..n -> 1..n] : \A a, b \in 1..n : f[a] = f[b] => a = b}

\* f[k] is the place in the arrays before the call of the entry that is at
\* place k after it
SortedBy(f) ==
    /\ \A k \in DOMAIN palavras' :
          /\ palavras'[k] = palavras[f[k]]
          /\ posicoes'[k] = posicoes[f[k]]
    /\ \A k, l \in DOMAIN palavras' :
          k < l => /\ strcasecmp(palavras'[k], palavras'[l]) <= 0
                   /\ strcasecmp(palavras'[k], palavras'[l]) = 0 => f[k] < f[l]

\* C23: sort_palavras_com_posicoes leaves the arrays as a permutation of
\* what they were, every word with its own position list, the words in
\* non-decreasing case-insensitive order and equal words in their original
\* order; criar_indice_hash leaves the arrays as they were.
C23_SortStablePermutation ==
    [][/\ ret' = "sorted" =>
             /\ Len(palavras') = Len(palavras) /\ Len(posicoes') = Len(palavras)
             /\ \E f \in PermutationsOf(Len(palavras)) : SortedBy(f)
       /\ ret' = "hash_built" => (palavras' = palavras /\ posicoes' = posicoes)]_vars

\* "b", "A", "a" was sorted: "A" and "a" kept their order and their lists
C23_Witness ==
    /\ ret = "sorted"
    /\ palavras = <<<<65>>, <<97>>, <<98>>>>
    /\ posicoes = <<<<2>>, <<3>>, <<1>>>>

IsSorted(words) ==
    \A k, l \in DOMAIN words : k < l => strcasecmp(words[k], words[l]) <= 0

\* C24: on an array in case-insensitive order binary_search_word returns a
\* 0-based index of an entry equal, ignoring case, to the word when there is
\* one and -1 when there is none (an empty array included), and its loop
\* ends: it runs at most once per entry.
C24_BinarySearchFinds ==
    (ret = "searched" /\ IsSorted(palavras)) =>
        /\ (\E k \in DOMAIN palavras : strcasecmp(palavras[k], texto) = 0)
              => /\ value >= 0 /\ value < Len(palavras)
                 /\ strcasecmp(palavras[value + 1], texto) = 0
        /\ (\A k \in DOMAIN palavras : strcasecmp(palavras[k], texto) # 0)
              => value = -1
        /\ BinarySearchIterations(palavras, texto, 0, Len(palavras) - 1) <= Len(palavras)

\* "B" was looked up in the sorted array "A", "a", "b" and found at index 2
C24_Witness ==
    /\ ret = "searched"
    /\ palavras = <<<<65>>, <<97>>, <<98>>>>
    /\ texto = <<66>>
    /\ value = 2

\* the table hash_insert probes: the table after the load test of lines 133-138
ProbedTable == ResizeIfNeeded(ht, "none").ht

NeverInserted(w) == \A pr \in inserted : strcasecmp(pr[1], w) # 0

\* C25: on every reachable table the probe loops of hash_insert and
\* hash_search read at most size slots, and hash_search of a word of which
\* no case variant was inserted returns not-found with no occurrence.
C25_ProbesBounded ==
    \A w \in KnownWords :
        /\ InsertProbeVisits(ProbedTable, w, hash_function(w, ProbedTable.size),
                             hash_function(w, ProbedTable.size)) <= ProbedTable.size
        /\ SearchProbeVisits(ht, w, hash_function(w, ht.size),
                             hash_function(w, ht.size)) <= ht.size
        /\ NeverInserted(w) => hash_search(ht, w) = NotFound

\* a table with every slot taken, in which the search of a word that was
\* never inserted reads every slot and wraps
C25_Witness ==
    /\ ht.size >= 2
    /\ ht.entries = ht.size
    /\ \E w \in KnownWords :
          /\ NeverInserted(w)
          /\ SearchProbeVisits(ht, w, hash_function(w, ht.size),
                               hash_function(w, ht.size)) = ht.size
          /\ hash_search(ht, w) = NotFound

\* the slots from the hash index of the word in slot i up to slot i
ProbePath(h, i) ==
    {(hash_function(h.table[i].word, h.size) + k) % h.size :
        k \in 0..((i + h.size - hash_function(h.table[i].word, h.size)) % h.size)}

\* C26: in every reachable table entries is the number of occupied slots,
\* no two occupied slots hold words equal ignoring case, and every occupied
\* slot is reached from the hash index of its word by linear probing without
\* passing an empty slot.
C26_OpenAddressing ==
    /\ ht.entries = Cardinality(DOMAIN ht.table)
    /\ DOMAIN ht.table \subseteq 0..(ht.size - 1)
    /\ \A i, j \in DOMAIN ht.table :
          strcasecmp(ht.table[i].word, ht.table[j].word) = 0 => i = j
    /\ \A i \in DOMAIN ht.table : ProbePath(ht, i) \subseteq DOMAIN ht.table

\* after a resize, an entry sits away from the hash index of its word
C26_Witness ==
    /\ resizes >= 1
    /\ \E i \in DOMAIN ht.table : hash_function(ht.table[i].word, ht.size) # i

\* C27: hash_insert never takes the table-full branch: the table it probes,
\* after the load test and a resize that succeeds, has an empty slot, so a
\* new word always finds one.
C27_NeverFull ==
    /\ ret # "full"
    /\ ProbedTable.entries < ProbedTable.size
    /\ \A w \in KnownWords :
          InsertProbeFrom(ProbedTable, w, hash_function(w, ProbedTable.size)) # -1

\* every slot of the table is taken and a resize has happened: the next
\* insertion of a new word has to grow the table before it probes
C27_Witness ==
    /\ ht.entries = ht.size
    /\ resizes >= 1
    /\ ret = "inserted"
    /\ ProbedTable.size = 2 * ht.size + 1

HasChildren(trie, p) == \E q \in DOMAIN trie : Len(q) = Len(p) + 1 /\ SubSeq(q, 1, Len(p)) = p

\* C28: in every trie reachable by trie_insert calls, a node other than the
\* root that has no children is an end-of-word node, and an end-of-word node
\* has at least one occurrence and no more than its capacity.
C28_LeavesAreWords ==
    \A p \in DOMAIN root :
        /\ (p # <<>> /\ ~HasChildren(root, p)) => root[p].is_end_of_word
        /\ root[p].is_end_of_word =>
              /\ Len(root[p].occurrences) >= 1
              /\ Len(root[p].occurrences) <= root[p].max_occurrences

\* C29: the read cursor of trie_insert and trie_search never goes past the
\* terminating NUL of the word, whatever its bytes, also when the word ends
\* in a lead byte whose continuation bytes are missing.
C29_CursorWithinWord ==
    ret \in {"inserted", "searched", "crash"} => value <= Len(texto) + 1

---------------------------------------------------------------------------
(* The menu *)

\* a step that creates an index: a handle takes a table or a root it did not hold
CriaIndice == (ht' # NULL /\ ht' # ht) \/ (root' # NULL /\ root' # root)

\* an index is only created while a text and a keyword list are loaded
SoCriaCarregado == [][CriaIndice => (texto_carregado /\ keywords_carregadas)]_vars

\* C30 as stated: in any sequence of menu operations, an index that exists was
\* built from the currently loaded text, and an index is only created while
\* both a text and a keyword list are loaded
C30_IndexOfLoadedText ==
    /\ [](ht # NULL => copias.texto_hash = texto)
    /\ [](root # NULL => copias.texto_trie = texto)
    /\ SoCriaCarregado

HashDaCopia ==
    criar_indice_hash_on(NULL, processar_texto(copias.texto_hash).words,
                         processar_texto(copias.texto_hash).positions,
                         copias.keywords_hash, "trap").ht

TrieDaCopia ==
    criar_indice_trie_on(NULL, processar_texto(copias.texto_trie).words,
                         processar_texto(copias.texto_trie).positions,
                         copias.keywords_trie).root

\* a step of carregar_texto in which the question was asked
TextoComIndices ==
    ret' \in {"texto_manter", "texto_excluir_hash", "texto_excluir_trie",
              "texto_excluir_ambas", "texto_excluir_outra"}

\* C30: an index that exists is the index of the text and keywords copied for
\* it when it was created; carregar_texto removes exactly the indexes the user
\* asks it to remove and keeps the others, whatever text is loaded next; and
\* an index is only created while both a text and a keyword list are loaded
C30_IndexOfItsOwnText ==
    /\ [](ht # NULL => ht = HashDaCopia)
    /\ [](root # NULL => root = TrieDaCopia)
    /\ [][TextoComIndices =>
            /\ ht' = (IF ret' \in {"texto_excluir_hash", "texto_excluir_ambas"}
                      THEN NULL ELSE ht)
            /\ root' = (IF ret' \in {"texto_excluir_trie", "texto_excluir_ambas"}
                        THEN NULL ELSE root)]_vars
    /\ SoCriaCarregado

\* a new text was loaded, the user kept the indexes, and the hash index is
\* still the one of the previous text
C30_Witness ==
    /\ ret = "texto_manter"
    /\ ht # NULL
    /\ copias.texto_hash # texto
    /\ root = NULL

=============================================================================
